---- MODULE Spec2Model ----
(***************************************************************************)
(* The scan acquisition pipeline of kochsoft/scan: the class-level session *)
(* tables of Scan (src/src/scan.py), the acquisition runs scan_adf and     *)
(* scan_flatbed, the image collection, and the part of ScanGui             *)
(* (src/src/scan_ui.py) that starts, cancels and completes runs.           *)
(*                                                                         *)
(* Spec    : the program as ScanGui drives it (presentation thread plus    *)
(*           the acquisition threads it launches), with the device         *)
(*           combobox left at the code handler_init selects.               *)
(* SpecApi : the Scan class driven directly by a sequential caller, as the *)
(*           command line entry point does (init_device, scan, close_all). *)
(* SpecDoc : the preview tab and "Save All ..." with no run in flight:     *)
(*           A4 mode, select, up/down, drag-and-drop, delete, save.        *)
(* SpecFiles : save_images on collections of up to MaxFiles images.        *)
(* SpecA4  : convert_to_A4 on one image.                                   *)
(* SpecOption : set_option / set_resolution on one option of a device.     *)
(* SpecHint : complete_code_hint on a discovery list and a hint.           *)
(* SpecDel  : del_image_by_name on collections of up to MaxPages images.   *)
(* SpecPage : the size of one page through save_images (A4 mode, rotate).  *)
(* SpecDpi  : dpi2tuple and the dpi convert_to_A4 divides by.              *)
(* SpecPad  : convert_to_A4 in pad mode, with the pixels at the rim.       *)
(* SpecScanned : Spec from a session in which two images exist already.    *)
(* SpecLive : Spec with threads that make progress (weak fairness).        *)
(***************************************************************************)
EXTENDS Integers, Sequences, FiniteSets, TLC

\* ------------------------------------------------------------- bounds
\* Sheets the driver can deliver in total (frames are numbered 1..MaxFrames
\* in the order the driver returns them).
MaxFrames == 2
\* Driver handle objects that can exist at once per device code.
MaxHandles == 2
\* Acquisition thread objects that can exist at once.
MaxThreads == 2

\* Images of a collection in the preview tab.
MaxPages == 3
\* Images of a collection that is saved.
MaxFiles == 10

\* ------------------------------------------------------ driver, devices
\* The device codes discovery returned (Scan.data_devices_info).
Codes == {"airscan:e0:X", "v4l:/dev/video0"}
\* Scan.code of a Scan object built without arguments:
\* complete_code_hint(defaults['code']) with the hint 'airscan'.
DefaultCode == "airscan:e0:X"

HandleIds == 1..MaxHandles
ThreadIds == 1..MaxThreads

\* Python's None for an absent table entry / absent thread.
None == 0

\* No value returned by init_device: not called last, or it raised.
NoResult == [code |-> "none", rc |-> -1]

\* What one frame request (device.scan()) can do: return a frame, raise
\* _sane.error('Document feeder out of documents'), raise another
\* _sane.error, or raise an exception of another type.
FrameOutcomes == {"frame", "empty", "sane", "other"}

VARIABLES
    data_next_index_image,  \* Scan.data_next_index_image
    data_request_stop,      \* Scan.data_request_stop
    data_devices,           \* Scan.data_devices: code -> handle (None: no entry)
    drv_open,               \* driver side: code -> handles the driver holds open
    drv_frames,             \* driver side: frames delivered so far
    scan_ready,             \* ScanGui.scan is not None (a Scan object exists)
    images,                 \* Scan.images of that object: the ordered collection
    threads,                \* the acquisition threads: slot -> locals and position
    thread_scan,            \* ScanGui.thread_scan (None or a slot)
    thread_init_alive,      \* ScanGui.thread_init is alive
    var_combo_device,       \* ScanGui.var_combo_device
    button_scan_fb,         \* state of ScanGui.button_scan_fb
    button_scan_adf,        \* state of ScanGui.button_scan_adf
    events,                 \* pending Tk virtual events, by name -> count
    label_pages_number,     \* ScanGui.label_pages_number: the number label_pages shows
    handlers_bound,         \* t_wait_and_bind_events has bound the three handlers
    init_rc,                \* what the program's last call of init_device returned: [code, rc]
    issued,                 \* history: the names get_next_name returned since the last reset
    info_dpi,               \* image -> its info['dpi'] (NoDpi: the key is absent)
    sel,                    \* preview listbox: position of the selected entry (-1: none)
    status_A4,              \* ScanGui.status_A4: what combo_A4 shows
    drag,                   \* history: index0, index1 and insert_above_addendum of the drop, when it was the last operation
    save_call,              \* the arguments of save_images, when it was the last operation
    writes,                 \* the Image.save calls that succeeded in save_images, when it was the last operation
    save_rc,                \* what that save_images call returned (-1: it raised, or none)
    op,                     \* history: the operation performed last
    a4_in,                  \* convert_to_A4: the arguments of the last call
    a4_out,                 \* convert_to_A4: what that call returned or raised
    call_args,              \* the arguments of the last call of set_option, complete_code_hint, del_image_by_name or save_images (one page)
    call_ret                \* what that call returned or raised

scanVars == <<data_next_index_image, data_request_stop, data_devices>>
drvVars == <<drv_open, drv_frames>>
guiVars == <<thread_scan, thread_init_alive, var_combo_device, button_scan_fb,
             button_scan_adf, events, label_pages_number, handlers_bound,
             init_rc>>
docVars == <<info_dpi, sel, status_A4, drag, save_call, writes, save_rc, op,
            a4_in, a4_out, call_args, call_ret>>
vars == <<data_next_index_image, data_request_stop, data_devices, drv_open,
          drv_frames, scan_ready, images, threads, thread_scan,
          thread_init_alive, var_combo_device, button_scan_fb, button_scan_adf,
          events, label_pages_number, handlers_bound, init_rc, issued, info_dpi,
          sel, status_A4,
          drag, save_call,
          writes, save_rc, op, a4_in, a4_out, call_args, call_ret>>

\* ------------------------------------------------------------ image names
DigitChar == <<"0", "1", "2", "3", "4", "5", "6", "7", "8", "9">>

RECURSIVE Decimal(_)
Decimal(n) ==
    IF n < 10 THEN DigitChar[n + 1]
    ELSE Decimal(n \div 10) \o DigitChar[(n % 10) + 1]

RECURSIVE ZeroPad(_, _)
ZeroPad(s, width) == IF Len(s) >= width THEN s ELSE ZeroPad("0" \o s, width)

\* tpl.format(index) for the templates '{:03}_adf' and '{:03}_flatbed'.
FormatName(index, tag) == ZeroPad(Decimal(index), 3) \o "_" \o tag

\* A get_next_name that leaves the counter alone.
NextIndexStuck(index) == index

\* The counter after get_next_name: Scan.data_next_index_image += 1.
NextIndex(index) == index + 1

\* ------------------------------------------------- the ordered collection
\* An OrderedDict is a sequence of entries [name, image] with distinct names.
Keys(d) == {d[i].name : i \in 1..Len(d)}

\* A store that puts a new entry in front.
OdictSetFront(d, name, image) == <<[name |-> name, image |-> image]>> \o d

\* d[name] = image: a present key keeps its place and gets the new value,
\* an absent key is appended at the end.
OdictSet(d, name, image) ==
    IF name \in Keys(d)
    THEN [i \in 1..Len(d) |->
            IF d[i].name = name THEN [name |-> name, image |-> image] ELSE d[i]]
    ELSE Append(d, [name |-> name, image |-> image])

IsNot(e, name) == e.name # name

\* del d[name]
OdictDel(d, name) == SelectSeq(d, LAMBDA e : IsNot(e, name))

\* ------------------------------------------------------------ threads
AlivePcs == {"init", "opening", "entry", "config", "loop", "scanning",
             "closing", "unreg", "notify", "done"}

\* A thread slot nobody runs in. The locals of a run: tp (which of scan_adf
\* and scan_flatbed), code, device, cb_done, images (alias / own), n0.
\* History of the run: req (frame requests issued), errs (frame requests
\* that raised), last (outcome of the last one), ret (the frames the driver
\* returned, in order), cb (calls of cb_done), stop_req (scan_stop was
\* called for the code of the run while it was in flight), source (the
\* value the run assigned to device.source, "none" without an assignment),
\* ignored (frames the driver returned and scan_flatbed did not store).
NoThread ==
    [pc |-> "none", tp |-> "none", code |-> "none", device |-> None,
     cb_done |-> "none", alias |-> TRUE, own |-> <<>>,
     n0 |-> 0, req |-> 0, errs |-> 0, last |-> "none", ret |-> <<>>,
     cb |-> 0, stop_req |-> FALSE, source |-> "none", ignored |-> 0]

Alive(t) == threads[t].pc \in AlivePcs

\* A presentation layer that never sees a run in flight.
ThreadScanAliveNever == FALSE

\* self.thread_scan and self.thread_scan.is_alive()
ThreadScanAlive == thread_scan # None /\ Alive(thread_scan)

\* The collection object the run of thread t appends to: the `images` local
\* of scan_adf / scan_flatbed. It is self.images (alias) unless the
\* presentation thread has rebound self.images to a new object meanwhile.
Coll(t) == IF threads[t].alias THEN images ELSE threads[t].own

FreeSlots == {t \in ThreadIds : ~Alive(t)}
FreeSlot == CHOOSE t \in FreeSlots : \A u \in FreeSlots : t <= u

\* Handles of `code` that are neither open nor referenced by the table or by
\* a running thread: the identities a new handle object can take.
FreeHandles(code) ==
    {h \in HandleIds :
        /\ h \notin drv_open[code]
        /\ data_devices[code] # h
        /\ \A t \in ThreadIds :
              ~(Alive(t) /\ threads[t].code = code /\ threads[t].device = h)}
FreshHandle(code) ==
    CHOOSE h \in FreeHandles(code) : \A g \in FreeHandles(code) : h <= g

\* ------------------------------------------------------- image metadata
\* No 'dpi' key in Image.info; also the dpi argument None.
NoDpi == <<0, 0>>
\* defaults['dpi']
DefaultDpi == 72

\* No convert_to_A4 call yet.
NoDrag == [index0 |-> -1, index1 |-> -1, addendum |-> 0]
NoCall == [pfname |-> [parent |-> "", name |-> ""], tp |-> "none",
           dpi |-> NoDpi, enforce_A4 |-> "none", landscape |-> FALSE]
NoA4In == [size |-> <<0, 0>>, info |-> NoDpi, dpi |-> NoDpi, stretch |-> FALSE]
NoA4Out == [raised |-> FALSE, size |-> <<0, 0>>, content |-> <<0, 0>>,
            info |-> NoDpi]

\* No such call yet.
NoArgs == <<>>

\* The preview tab and the assembler have done nothing.
AssemblerIdle(ids) ==
    /\ info_dpi = [i \in ids |-> NoDpi]
    /\ sel = -1
    /\ status_A4 = "none"
    /\ drag = NoDrag
    /\ save_call = NoCall
    /\ writes = <<>>
    /\ save_rc = -1
    /\ op = "none"
    /\ a4_in = NoA4In
    /\ a4_out = NoA4Out

DocIdle(ids) ==
    /\ AssemblerIdle(ids)
    /\ call_args = NoArgs
    /\ call_ret = NoArgs

\* ------------------------------------------------------- initial state
\* ScanGui.__init__ has built the window and started the initialization
\* thread (threaded_initialize_Scan_object): the scan buttons are disabled
\* by enable_gui(False), no Scan object exists yet, the class-level tables
\* of Scan hold their declared values.
Init ==
    /\ data_next_index_image = 0
    /\ data_request_stop = FALSE
    /\ data_devices = [c \in Codes |-> None]
    /\ drv_open = [c \in Codes |-> {}]
    /\ drv_frames = 0
    /\ scan_ready = FALSE
    /\ images = <<>>
    /\ threads = [t \in ThreadIds |-> NoThread]
    /\ thread_scan = None
    /\ thread_init_alive = TRUE
    /\ var_combo_device = "<empty>"
    /\ button_scan_fb = "disabled"
    /\ button_scan_adf = "disabled"
    /\ events = [init_complete |-> 0, scan_complete_single_multi |-> 0,
                 scan_complete |-> 0]
    /\ label_pages_number = Len(images)
    /\ handlers_bound = FALSE
    /\ init_rc = NoResult
    /\ issued = <<>>
    /\ DocIdle(1..MaxFrames)

\* ------------------------------------------------ Device Session Manager
\* An init_device without lines 182-183.
init_device_noclose(code) == drv_open

\* init_device, lines 182-183: the handle registered for the code is closed.
init_device_close(code) ==
    IF data_devices[code] # None
    THEN [drv_open EXCEPT ![code] = @ \ {data_devices[code]}]
    ELSE drv_open

\* Scan.init_device for a code complete_code_hint resolves to itself.
\* close_raises: the close of line 183 raises (it is outside the try);
\* open_raises: sane.open raises _sane.error (return 2).
init_device(code, close_raises, open_raises) ==
    IF data_devices[code] # None /\ close_raises
    THEN /\ drv_open' = init_device_close(code)
         /\ UNCHANGED data_devices
    ELSE IF open_raises
    THEN /\ drv_open' = init_device_close(code)
         /\ UNCHANGED data_devices
    ELSE /\ FreeHandles(code) # {}
         /\ drv_open' = [init_device_close(code) EXCEPT
                            ![code] = @ \cup {FreshHandle(code)}]
         /\ data_devices' = [data_devices EXCEPT ![code] = FreshHandle(code)]

\* What init_device returns: 0, or 2 when sane.open raised; nothing when
\* the close of line 183 raised and the exception left init_device.
init_device_rc(code, close_raises, open_raises) ==
    IF data_devices[code] # None /\ close_raises THEN NoResult
    ELSE IF open_raises THEN [code |-> code, rc |-> 2]
    ELSE [code |-> code, rc |-> 0]

\* Scan.close_all: every registered handle is closed (an error of a close is
\* swallowed), then the table is replaced by an empty one.
close_all ==
    /\ drv_open' = [c \in Codes |-> drv_open[c] \ {data_devices[c]}]
    /\ data_devices' = [c \in Codes |-> None]

\* Scan.reset
reset ==
    /\ close_all
    /\ data_next_index_image' = 0
    /\ issued' = <<>>

\* Scan.scan_stop: the flag is set when a handle is registered for the code.
scan_stop_flag(code) ==
    IF data_devices[code] # None THEN TRUE ELSE data_request_stop

\* History: a stop request was made for the device of a run in flight.
NoteStop(code) ==
    [t \in ThreadIds |->
        IF Alive(t) /\ threads[t].code = code
        THEN [threads[t] EXCEPT !.stop_req = TRUE]
        ELSE threads[t]]

\* ------------------------------------------------ Acquisition Controller
\* A thread whose function has returned ("finished") or raised ("crashed"):
\* its locals are gone.
Ended(rec, how) == [NoThread EXCEPT !.pc = how]

\* The run of thread t stores into its collection; rec is its new record.
Store(t, d, rec) ==
    IF threads[t].alias
    THEN /\ images' = d
         /\ threads' = [threads EXCEPT ![t] = rec]
    ELSE /\ images' = images
         /\ threads' = [threads EXCEPT ![t] = [rec EXCEPT !.own = d]]

\* t_init_scan_action, line 481: init_device is called when no handle is
\* registered for the code.
TInit(t) ==
    /\ threads[t].pc = "init"
    /\ threads' = [threads EXCEPT ![t].pc =
                     IF data_devices[threads[t].code] = None
                     THEN "opening" ELSE "entry"]
    /\ UNCHANGED <<scanVars, drvVars, scan_ready, images, guiVars, issued,
                   docVars>>

\* t_init_scan_action, line 482: Scan.init_device(code); its result is ignored.
TOpen(t) ==
    /\ threads[t].pc = "opening"
    /\ \E open_raises \in BOOLEAN :
          init_device(threads[t].code, FALSE, open_raises)
    /\ threads' = [threads EXCEPT ![t].pc = "entry"]
    /\ UNCHANGED <<data_next_index_image, data_request_stop, drv_frames,
                   scan_ready, images, guiVars, issued, docVars>>

\* scan_adf lines 451-458, scan_flatbed lines 488-495: look the device up,
\* bind images, return when no handle is registered.
TEntry(t) ==
    /\ threads[t].pc = "entry"
    /\ threads' = [threads EXCEPT ![t] =
          IF data_devices[threads[t].code] = None
          THEN Ended(threads[t], "finished")
          ELSE [threads[t] EXCEPT !.pc = "config",
                                  !.device = data_devices[threads[t].code],
                                  !.alias = TRUE]]
    /\ UNCHANGED <<scanVars, drvVars, scan_ready, images, guiVars, issued,
                   docVars>>

\* scan_adf lines 459-462: device.source = 'ADF' (raises on a closed handle or
\* when the driver rejects it; nothing catches it), set_resolution,
\* n0 = len(self.images), clear the stop flag.  scan_flatbed lines 496-501:
\* the assignment device.source = 'Flatbed' is a comment; set_resolution,
\* n0 = len(images), clear the stop flag, device.scan().
TConfig(t) ==
    /\ threads[t].pc = "config"
    /\ \E source_raises \in BOOLEAN :
          IF /\ threads[t].tp = "adf"
             /\ \/ source_raises
                \/ threads[t].device \notin drv_open[threads[t].code]
          THEN /\ threads' = [threads EXCEPT ![t] = Ended(threads[t], "crashed")]
               /\ UNCHANGED data_request_stop
          ELSE /\ data_request_stop' = FALSE
               /\ threads' = [threads EXCEPT ![t] =
                     IF threads[t].tp = "adf"
                     THEN [threads[t] EXCEPT !.pc = "loop",
                                             !.source = "ADF",
                                             !.n0 = Len(images)]
                     ELSE [threads[t] EXCEPT !.pc = "scanning", !.req = 1,
                                             !.n0 = Len(Coll(t))]]
    /\ UNCHANGED <<data_next_index_image, data_devices, drvVars, scan_ready,
                   images, guiVars, issued, docVars>>

\* scan_adf lines 463-468: the stop flag is tested, then a frame is requested.
TLoop(t) ==
    /\ threads[t].pc = "loop"
    /\ threads' = [threads EXCEPT ![t] =
          IF data_request_stop
          THEN [threads[t] EXCEPT !.pc = "closing"]
          ELSE [threads[t] EXCEPT !.pc = "scanning", !.req = @ + 1]]
    /\ UNCHANGED <<scanVars, drvVars, scan_ready, images, guiVars, issued,
                   docVars>>

\* The outcomes device.scan() can have now: a frame needs an open handle
\* and a sheet; a closed handle raises _sane.error.
PossibleOutcomes(t) ==
    IF threads[t].device \notin drv_open[threads[t].code] THEN {"sane"}
    ELSE IF drv_frames < MaxFrames THEN FrameOutcomes
    ELSE FrameOutcomes \ {"frame"}

\* A feeder loop that only ends on 'Document feeder out of documents'.
AdfAfterErrorRetry(outcome) == IF outcome = "empty" THEN "closing" ELSE "loop"

\* scan_adf lines 472-477: every Exception ends the loop.
AdfAfterError(outcome) == "closing"

\* scan_flatbed lines 506-507: only _sane.error is caught.
FlatbedAfterError(outcome) ==
    IF outcome \in {"empty", "sane"} THEN "closing" ELSE "crashed"

\* A scan_flatbed that stores the frame whatever the stop flag says.
FlatbedKeepsAlways(stop) == TRUE

\* scan_flatbed lines 502-505: the frame is stored unless a stop was requested.
FlatbedKeeps(stop) == ~stop

\* The frame request returns or raises.
TFrame(t) ==
    /\ threads[t].pc = "scanning"
    /\ \E outcome \in PossibleOutcomes(t) :
        LET rec == [threads[t] EXCEPT
                      !.last = outcome,
                      !.ret = IF outcome = "frame"
                              THEN Append(@, drv_frames + 1) ELSE @]
            tag == IF rec.tp = "adf" THEN "adf" ELSE "flatbed"
            name == FormatName(data_next_index_image, tag)
            frame == drv_frames + 1
            keep == rec.tp = "adf" \/ FlatbedKeeps(data_request_stop)
            cb_single_done == rec.tp = "adf" /\ rec.cb_done = "cb_scan"
        IN IF outcome = "frame"
           THEN /\ drv_frames' = frame
                /\ IF keep
                   THEN /\ Store(t, OdictSet(Coll(t), name, frame),
                              [rec EXCEPT !.pc = IF rec.tp = "adf" THEN "loop"
                                                 ELSE "closing"])
                        /\ data_next_index_image' = NextIndex(data_next_index_image)
                        /\ issued' = Append(issued, name)
                        /\ events' = IF cb_single_done
                                     THEN [events EXCEPT
                                             !.scan_complete_single_multi = @ + 1]
                                     ELSE events
                   ELSE /\ threads' = [threads EXCEPT ![t] =
                                         [rec EXCEPT !.pc = "closing",
                                                     !.ignored = @ + 1]]
                        /\ UNCHANGED <<images, data_next_index_image, issued,
                                       events>>
           ELSE /\ threads' = [threads EXCEPT ![t] =
                     LET nxt == IF rec.tp = "adf" THEN AdfAfterError(outcome)
                                ELSE FlatbedAfterError(outcome)
                         r2 == [rec EXCEPT !.errs = @ + 1, !.pc = nxt]
                     IN IF nxt = "crashed" THEN Ended(r2, "crashed") ELSE r2]
                /\ UNCHANGED <<images, data_next_index_image, issued, drv_frames,
                               events>>
    /\ UNCHANGED <<data_request_stop, data_devices, drv_open, scan_ready,
                   thread_scan, thread_init_alive, var_combo_device,
                   button_scan_fb, button_scan_adf, label_pages_number,
                   handlers_bound, init_rc,
                   docVars>>

\* scan_adf line 478, scan_flatbed line 508: device.close(). The driver
\* releases the handle; an error it raises is not caught.
TClose(t) ==
    /\ threads[t].pc = "closing"
    /\ drv_open' = [drv_open EXCEPT ![threads[t].code] = @ \ {threads[t].device}]
    /\ \E close_raises \in BOOLEAN :
          threads' = [threads EXCEPT ![t] =
              IF close_raises THEN Ended(threads[t], "crashed")
              ELSE [threads[t] EXCEPT !.pc = "unreg"]]
    /\ UNCHANGED <<scanVars, drv_frames, scan_ready, images, guiVars, issued,
                   docVars>>

\* scan_adf lines 479-480, scan_flatbed lines 509-510: the table entry of the
\* code is deleted.
TUnregister(t) ==
    /\ threads[t].pc = "unreg"
    /\ data_devices' = [data_devices EXCEPT ![threads[t].code] = None]
    /\ threads' = [threads EXCEPT ![t].pc = "notify"]
    /\ UNCHANGED <<data_next_index_image, data_request_stop, drvVars,
                   scan_ready, images, guiVars, issued, docVars>>

\* scan_adf lines 483-484, scan_flatbed lines 513-514: cb_done, which is
\* ScanGui.cb_scan (it posts <<scan_complete>>) for a run the GUI started.
TDone(t) ==
    /\ threads[t].pc = "notify"
    /\ IF threads[t].cb_done = "cb_scan"
       THEN /\ threads' = [threads EXCEPT ![t].pc = "done", ![t].cb = @ + 1]
            /\ events' = [events EXCEPT !.scan_complete = @ + 1]
       ELSE /\ threads' = [threads EXCEPT ![t].pc = "done"]
            /\ UNCHANGED events
    /\ UNCHANGED <<scanVars, drvVars, scan_ready, images, thread_scan,
                   thread_init_alive, var_combo_device, button_scan_fb,
                   button_scan_adf, init_rc, issued, docVars,
                   label_pages_number, handlers_bound>>

\* A return that clears the stop flag once more on its way out.
TExitClearsFlag(t) ==
    /\ threads[t].pc = "done"
    /\ threads' = [threads EXCEPT ![t] = Ended(threads[t], "finished")]
    /\ data_request_stop' = FALSE
    /\ UNCHANGED <<data_next_index_image, data_devices, drvVars, scan_ready,
                   images, guiVars, issued, docVars>>

\* scan_adf line 485, scan_flatbed line 515: return; the thread ends.
TExit(t) ==
    /\ threads[t].pc = "done"
    /\ threads' = [threads EXCEPT ![t] = Ended(threads[t], "finished")]
    /\ UNCHANGED <<scanVars, drvVars, scan_ready, images, guiVars, issued,
                   docVars>>

\* scan_adf / scan_flatbed from entry to return.
RunStep ==
    \E t \in ThreadIds :
        \/ TEntry(t)
        \/ TConfig(t)
        \/ TLoop(t)
        \/ TFrame(t)
        \/ TClose(t)
        \/ TUnregister(t)
        \/ TDone(t)
        \/ TExit(t)

\* t_init_scan_action, then the run.
ThreadStep ==
    \/ \E t \in ThreadIds : TInit(t) \/ TOpen(t)
    \/ RunStep

\* ------------------------------------------------- Presentation Layer
\* Tk handles its queue in order: the virtual events the threads posted
\* (event_generate(..., when='tail')) are handled before any input of the
\* user that arrives after them.
QueueEmpty ==
    /\ events.init_complete = 0
    /\ events.scan_complete_single_multi = 0
    /\ events.scan_complete = 0

\* t_wait_and_bind_events: after time.sleep(0.5) the thread binds the
\* handlers of the three virtual events.
t_wait_and_bind_events ==
    /\ ~handlers_bound
    /\ handlers_bound' = TRUE
    /\ UNCHANGED <<scanVars, drvVars, scan_ready, images, threads, thread_scan,
                   thread_init_alive, var_combo_device, button_scan_fb,
                   button_scan_adf, events, label_pages_number, init_rc,
                   issued, docVars>>

\* Tk takes a virtual event from its queue while nothing is bound to it:
\* no handler runs.
unbound_event ==
    /\ ~handlers_bound
    /\ \E name \in DOMAIN events :
          /\ events[name] > 0
          /\ events' = [events EXCEPT ![name] = @ - 1]
    /\ UNCHANGED <<scanVars, drvVars, scan_ready, images, threads, thread_scan,
                   thread_init_alive, var_combo_device, button_scan_fb,
                   button_scan_adf, label_pages_number, handlers_bound,
                   init_rc, issued, docVars>>

\* t_init_scan_object: Scan(cb_print, cb_init) runs init_static, creates the
\* empty collection and calls cb_init, which posts <<init_complete>>.
t_init_scan_object ==
    /\ thread_init_alive
    /\ thread_init_alive' = FALSE
    /\ scan_ready' = TRUE
    /\ images' = <<>>
    /\ events' = [events EXCEPT !.init_complete = @ + 1]
    /\ UNCHANGED <<scanVars, drvVars, threads, thread_scan, var_combo_device,
                   button_scan_fb, button_scan_adf, init_rc, issued, docVars,
                   label_pages_number, handlers_bound>>

\* handler_init: enable_gui(True) and the device combobox is filled and set
\* to the code of the Scan object.
handler_init ==
    /\ handlers_bound
    /\ events.init_complete > 0
    /\ events' = [events EXCEPT !.init_complete = @ - 1]
    /\ button_scan_fb' = "normal"
    /\ button_scan_adf' = "normal"
    /\ var_combo_device' = DefaultCode
    /\ UNCHANGED <<scanVars, drvVars, scan_ready, images, threads, thread_scan,
                   thread_init_alive, init_rc, issued, docVars,
                   label_pages_number, handlers_bound>>

\* threaded_initialize_scan_action: enable_gui(False), the pressed button
\* becomes the stop button, and the thread is started; its first statement
\* reads the device combobox.
threaded_initialize_scan_action(tp) ==
    /\ FreeSlots # {}
    /\ threads' = [threads EXCEPT ![FreeSlot] =
                     [NoThread EXCEPT !.pc = "init", !.tp = tp,
                                      !.code = var_combo_device,
                                      !.cb_done = "cb_scan"]]
    /\ thread_scan' = FreeSlot
    /\ button_scan_fb' = IF tp = "flatbed" THEN "normal" ELSE "disabled"
    /\ button_scan_adf' = IF tp = "adf" THEN "normal" ELSE "disabled"
    /\ UNCHANGED <<scanVars, drvVars, scan_ready, images, thread_init_alive,
                   var_combo_device, events, init_rc, issued, docVars,
                   label_pages_number, handlers_bound>>

\* The cancel branch of scan_single / scan_multi (the user confirms the
\* dialog): scan_stop for the selected device, the button is disabled.
cancel_scan(tp) ==
    /\ data_request_stop' = scan_stop_flag(var_combo_device)
    /\ threads' = NoteStop(var_combo_device)
    /\ button_scan_fb' = IF tp = "flatbed" THEN "disabled" ELSE button_scan_fb
    /\ button_scan_adf' = IF tp = "adf" THEN "disabled" ELSE button_scan_adf
    /\ UNCHANGED <<data_next_index_image, data_devices, drvVars, scan_ready,
                   images, thread_scan, thread_init_alive, var_combo_device,
                   events, init_rc, issued, docVars,
                   label_pages_number, handlers_bound>>

\* ScanGui.scan_single, the command of button_scan_fb.
scan_single ==
    /\ QueueEmpty
    /\ button_scan_fb = "normal"
    /\ IF ThreadScanAlive THEN cancel_scan("flatbed")
       ELSE threaded_initialize_scan_action("flatbed")

\* ScanGui.scan_multi, the command of button_scan_adf.
scan_multi ==
    /\ QueueEmpty
    /\ button_scan_adf = "normal"
    /\ IF ThreadScanAlive THEN cancel_scan("adf")
       ELSE threaded_initialize_scan_action("adf")

\* handler_scan: enable_gui(True) and both scan buttons back to normal.
handler_scan ==
    /\ handlers_bound
    /\ events.scan_complete > 0
    /\ events' = [events EXCEPT !.scan_complete = @ - 1]
    /\ events.scan_complete_single_multi = 0
    /\ button_scan_fb' = "normal"
    /\ button_scan_adf' = "normal"
    /\ label_pages_number' = Len(images)
    /\ UNCHANGED <<scanVars, drvVars, scan_ready, images, threads, thread_scan,
                   thread_init_alive, var_combo_device, init_rc, issued,
                   docVars,
                   handlers_bound>>

\* handler_scan_single_multi: <<scan_complete_single_multi>>, which
\* cb_scan_single_multi posts after every frame of a feeder run.
handler_scan_single_multi ==
    /\ handlers_bound
    /\ events.scan_complete_single_multi > 0
    /\ events' = [events EXCEPT !.scan_complete_single_multi = @ - 1]
    /\ label_pages_number' = Len(images)
    /\ UNCHANGED <<scanVars, drvVars, scan_ready, images, threads, thread_scan,
                   thread_init_alive, var_combo_device, button_scan_fb,
                   button_scan_adf, init_rc, issued, docVars,
                   handlers_bound>>

\* A delete that takes the first entry out whatever the name is.
del_image_first(d, name) == IF name \in Keys(d) THEN Tail(d) ELSE d

\* Scan.del_image_by_name: the entry is removed when the name is a key.
del_image_by_name(d, name) == IF name \in Keys(d) THEN OdictDel(d, name) ELSE d

\* ScanGui.delete_image for the entry selected in the preview list.
delete_image(name) ==
    /\ QueueEmpty
    /\ scan_ready
    /\ name \in Keys(images)
    /\ images' = del_image_by_name(images, name)
    /\ UNCHANGED <<scanVars, drvVars, scan_ready, threads, guiVars, issued,
                   docVars>>

\* ScanGui.delete_image_stack (the user confirms): self.scan.images.clear().
delete_image_stack ==
    /\ QueueEmpty
    /\ scan_ready
    /\ Len(images) # 0
    /\ ~ThreadScanAlive
    /\ images' = <<>>
    /\ UNCHANGED <<scanVars, drvVars, scan_ready, threads, guiVars, issued,
                   docVars>>

\* handler_listbox_preview_b1up, lines 322-330: the entry at index0 is taken
\* out and put back before position index1 + insert_above_addendum
\* (0-based positions, as in the code).
Positions(d, from, to, index0) ==
    SelectSeq([i \in 1..Len(d) |-> i - 1],
              LAMBDA j : j >= from /\ j < to /\ j # index0)
Pick(d, pos) == [i \in 1..Len(pos) |-> d[pos[i] + 1]]
\* A reorder that drops the entry before position index1 whatever half of
\* the line the pointer is in.
ReorderedAbove(d, index0, index1, addendum) ==
    Pick(d, Positions(d, 0, index1, index0))
        \o <<d[index0 + 1]>>
        \o Pick(d, Positions(d, index1, Len(d), index0))

Reordered(d, index0, index1, addendum) ==
    Pick(d, Positions(d, 0, index1 + addendum, index0))
        \o <<d[index0 + 1]>>
        \o Pick(d, Positions(d, index1 + addendum, Len(d), index0))

\* handler_listbox_preview_b1up: self.scan.images is rebound to a new
\* OrderedDict; a run in flight keeps the object it was started with.
handler_listbox_preview_b1up(index0, index1, addendum) ==
    /\ QueueEmpty
    /\ scan_ready
    /\ index0 # index1
    /\ images' = Reordered(images, index0, index1, addendum)
    /\ threads' = [t \in ThreadIds |->
                     IF Alive(t) /\ threads[t].alias
                     THEN [threads[t] EXCEPT !.alias = FALSE, !.own = images]
                     ELSE threads[t]]
    /\ UNCHANGED <<scanVars, drvVars, scan_ready, guiVars, issued, docVars>>

\* ScanGui.refresh_devices (the user confirms): Scan.reset(), both scan
\* buttons disabled, the Scan object dropped and a new one initialized.
refresh_devices ==
    /\ QueueEmpty
    /\ ~thread_init_alive
    /\ ~ThreadScanAlive
    /\ reset
    /\ button_scan_fb' = "disabled"
    /\ button_scan_adf' = "disabled"
    /\ thread_scan' = None
    /\ scan_ready' = FALSE
    /\ images' = <<>>
    /\ thread_init_alive' = TRUE
    /\ UNCHANGED <<data_request_stop, drv_frames, threads, var_combo_device,
                   events, init_rc, docVars,
                   label_pages_number, handlers_bound>>

GuiStep ==
    \/ t_init_scan_object
    \/ handler_init
    \/ handler_scan
    \/ handler_scan_single_multi
    \/ scan_single
    \/ scan_multi
    \/ \E name \in Keys(images) : delete_image(name)
    \/ delete_image_stack
    \/ \E index0, index1 \in 0..(Len(images) - 1), addendum \in {0, 1} :
          handler_listbox_preview_b1up(index0, index1, addendum)
    \/ refresh_devices

\* The start of the GUI, until the handlers are bound.
StartStep == t_wait_and_bind_events \/ unbound_event

Next == StartStep \/ GuiStep \/ ThreadStep

Spec == Init /\ [][Next]_vars

\* The same program with threads that make progress: a thread that can run
\* is scheduled, and every driver call it makes comes back (with a result
\* or an error).
SpecLive == Init /\ [][Next]_vars /\ WF_vars(ThreadStep)

\* ------------------------------------- a session with two images scanned
\* The GUI after two completed flatbed runs: two images in the
\* collection, no run in flight, no event pending. The driver has one more
\* frame to deliver: drv_frames starts one below MaxFrames, and the images
\* of the earlier runs carry the frame numbers above MaxFrames.
InitScanned ==
    /\ data_next_index_image = 2
    /\ data_request_stop = FALSE
    /\ data_devices = [c \in Codes |-> None]
    /\ drv_open = [c \in Codes |-> {}]
    /\ drv_frames = MaxFrames - 1
    /\ scan_ready = TRUE
    /\ images = [k \in 1..2 |-> [name |-> FormatName(k - 1, "flatbed"),
                                 image |-> MaxFrames + k]]
    /\ threads = [t \in ThreadIds |->
                    IF t = 1 THEN Ended(NoThread, "finished") ELSE NoThread]
    /\ thread_scan = 1
    /\ thread_init_alive = FALSE
    /\ var_combo_device = DefaultCode
    /\ button_scan_fb = "normal"
    /\ button_scan_adf = "normal"
    /\ events = [init_complete |-> 0, scan_complete_single_multi |-> 0,
                 scan_complete |-> 0]
    /\ label_pages_number = Len(images)
    /\ handlers_bound = TRUE
    /\ init_rc = NoResult
    /\ issued = [k \in 1..2 |-> FormatName(k - 1, "flatbed")]
    /\ DocIdle(1..MaxFrames)

NextScanned == GuiStep \/ ThreadStep

SpecScanned == InitScanned /\ [][NextScanned]_vars

\* ------------------------------------------------- the Scan class, direct
\* A Scan object exists (Scan.__init__ without GUI); no GUI state is used.
InitApi ==
    /\ data_next_index_image = 0
    /\ data_request_stop = FALSE
    /\ data_devices = [c \in Codes |-> None]
    /\ drv_open = [c \in Codes |-> {}]
    /\ drv_frames = 0
    /\ scan_ready = TRUE
    /\ images = <<>>
    /\ threads = [t \in ThreadIds |-> NoThread]
    /\ thread_scan = None
    /\ thread_init_alive = FALSE
    /\ var_combo_device = "<empty>"
    /\ button_scan_fb = "disabled"
    /\ button_scan_adf = "disabled"
    /\ events = [init_complete |-> 0, scan_complete_single_multi |-> 0,
                 scan_complete |-> 0]
    /\ label_pages_number = Len(images)
    /\ handlers_bound = FALSE
    /\ init_rc = NoResult
    /\ issued = <<>>
    /\ DocIdle(1..MaxFrames)

NoRun == \A t \in ThreadIds : ~Alive(t)

\* Scan.init_device(code) called by the program.
ApiInitDevice(code) ==
    /\ NoRun
    /\ \E close_raises, open_raises \in BOOLEAN :
          /\ init_device(code, close_raises, open_raises)
          /\ init_rc' = init_device_rc(code, close_raises, open_raises)
    /\ UNCHANGED <<data_next_index_image, data_request_stop, drv_frames,
                   scan_ready, images, threads, thread_scan, thread_init_alive,
                   var_combo_device, button_scan_fb, button_scan_adf, events,
                   issued, docVars,
                   label_pages_number, handlers_bound>>

\* Scan.scan: scan_flatbed() or scan_adf() without callbacks, on `code`.
ApiScan(tp, code) ==
    /\ NoRun
    /\ threads' = [threads EXCEPT ![FreeSlot] =
                     [NoThread EXCEPT !.pc = "entry", !.tp = tp, !.code = code]]
    /\ init_rc' = NoResult
    /\ UNCHANGED <<scanVars, drvVars, scan_ready, images, thread_scan, thread_init_alive,
                   var_combo_device, button_scan_fb, button_scan_adf, events,
                   issued, docVars,
                   label_pages_number, handlers_bound>>

\* Scan.scan_stop(code), from any thread.
ApiScanStop(code) ==
    /\ data_request_stop' = scan_stop_flag(code)
    /\ threads' = NoteStop(code)
    /\ init_rc' = NoResult
    /\ UNCHANGED <<data_next_index_image, data_devices, drvVars, scan_ready,
                   images, thread_scan, thread_init_alive,
                   var_combo_device, button_scan_fb, button_scan_adf, events, issued,
                   docVars,
                   label_pages_number, handlers_bound>>

\* Scan.close_all()
ApiCloseAll ==
    /\ NoRun
    /\ close_all
    /\ init_rc' = NoResult
    /\ UNCHANGED <<data_next_index_image, data_request_stop, drv_frames,
                   scan_ready, images, threads, thread_scan, thread_init_alive,
                   var_combo_device, button_scan_fb, button_scan_adf, events,
                   issued, docVars,
                   label_pages_number, handlers_bound>>

\* Scan.reset()
ApiReset ==
    /\ NoRun
    /\ reset
    /\ init_rc' = NoResult
    /\ UNCHANGED <<data_request_stop, drv_frames, scan_ready, images, threads,
                   thread_scan, thread_init_alive,
                   var_combo_device, button_scan_fb, button_scan_adf, events,
                   docVars,
                   label_pages_number, handlers_bound>>

\* Scan.del_image_by_name(name)
ApiDelImage(name) ==
    /\ NoRun
    /\ images' = del_image_by_name(images, name)
    /\ init_rc' = NoResult
    /\ UNCHANGED <<scanVars, drvVars, scan_ready, threads, thread_scan, thread_init_alive,
                   var_combo_device, button_scan_fb, button_scan_adf, events,
                   issued, docVars,
                   label_pages_number, handlers_bound>>

NextApi ==
    \/ \E code \in Codes : ApiInitDevice(code)
    \/ \E tp \in {"adf", "flatbed"}, code \in Codes : ApiScan(tp, code)
    \/ \E code \in Codes : ApiScanStop(code)
    \/ ApiCloseAll
    \/ ApiReset
    \/ \E name \in Keys(images) : ApiDelImage(name)
    \/ RunStep

SpecApi == InitApi /\ [][NextApi]_vars

\* ---------------------------------------------------- Document Assembler
A4Modes == {"none", "pad", "stretch"}
OutputTypes == {"pdf", "png"}

\* A path: Path(pfname).parent and Path(pfname).name; the empty string has
\* both empty.
EmptyPath == [parent |-> "", name |-> ""]
Paths == {EmptyPath, [parent |-> "out", name |-> "scan.pdf"],
          [parent |-> "out", name |-> "scan.png"]}

\* Scan.dpi2tuple for None or a pair of numbers >= min_dpi.
dpi2tuple(dpi) == IF dpi = NoDpi THEN <<DefaultDpi, DefaultDpi>> ELSE dpi

\* convert_to_A4 lines 367-368: im_input.info['dpi'] after the call.
ConvertInfo(info, dpi) ==
    IF info = NoDpi \/ dpi # NoDpi THEN dpi2tuple(dpi) ELSE info

\* Checks that let an empty path pass.
SaveValidateNoPath(d, pfname) == IF Len(d) = 0 THEN 1 ELSE 0

\* save_images lines 405-410: the checks before anything else is done.
SaveValidate(d, pfname) ==
    IF Len(d) = 0 THEN 1
    ELSE IF pfname = EmptyPath THEN 2
    ELSE 0

\* save_images lines 412-421: the page made of a stored image. It is the
\* stored image itself when neither A4 nor landscape is asked for, else a
\* new image.
PageOf(image, enforce_A4, landscape) ==
    [src |-> image, a4 |-> enforce_A4, rotated |-> landscape,
     new |-> (enforce_A4 # "none" \/ landscape)]

\* The pages in reverse order.
PagesReversed(d, enforce_A4, landscape) ==
    [j \in 1..Len(d) |->
        PageOf(d[Len(d) + 1 - j].image, enforce_A4, landscape)]

Pages(d, enforce_A4, landscape) ==
    [j \in 1..Len(d) |-> PageOf(d[j].image, enforce_A4, landscape)]

\* floor(log(n, 10)) for 1 <= n < 1000.
RECURSIVE FloorLog10(_)
FloorLog10(n) == IF n < 10 THEN 0 ELSE 1 + FloorLog10(n \div 10)

\* A width without the + 1.
NDigitsFloor(n) == FloorLog10(n)

\* save_images line 427
NDigits(n) == FloorLog10(n) + 1

\* A file name that does not depend on j.
IndexedPathSame(pfname, j, n_digits) ==
    [parent |-> pfname.parent,
     name |-> ZeroPad(Decimal(0), n_digits) \o "_" \o pfname.name]

\* save_images lines 430-432: the file of the j-th image (j from 0).
IndexedPath(pfname, j, n_digits) ==
    [parent |-> pfname.parent,
     name |-> ZeroPad(Decimal(j), n_digits) \o "_" \o pfname.name]

\* save_images lines 422-435: the Image.save calls, in order.
SavePlan(d, pfname, tp, enforce_A4, landscape) ==
    LET pages == Pages(d, enforce_A4, landscape)
    IN IF Len(d) > 1
       THEN IF tp = "pdf"
            THEN <<[path |-> pfname, format |-> tp, pages |-> pages]>>
            ELSE [j \in 1..Len(d) |->
                    [path |-> IndexedPath(pfname, j - 1, NDigits(Len(d))),
                     format |-> tp, pages |-> <<pages[j]>>]]
       ELSE <<[path |-> pfname, format |-> tp, pages |-> <<pages[1]>>]>>

\* save_images lines 412-415: convert_to_A4 is called on every stored image.
SaveInfo(d, dpi, enforce_A4) ==
    [i \in DOMAIN info_dpi |->
        IF enforce_A4 # "none" /\ \E j \in 1..Len(d) : d[j].image = i
        THEN ConvertInfo(info_dpi[i], dpi2tuple(dpi))
        ELSE info_dpi[i]]

\* Scan.save_images(pfname, images, tp, dpi, enforce_A4, landscape).
\* fail = k > 0: the k-th Image.save raises (the files written before it
\* stay, nothing catches the exception); fail = 0: every write succeeds.
save_images(pfname, tp, dpi, enforce_A4, landscape, fail) ==
    /\ scan_ready
    /\ LET rc == SaveValidate(images, pfname)
           plan == SavePlan(images, pfname, tp, enforce_A4, landscape)
       IN IF rc # 0
          THEN /\ fail = 0
               /\ save_rc' = rc
               /\ writes' = <<>>
               /\ UNCHANGED info_dpi
          ELSE /\ fail <= Len(plan)
               /\ info_dpi' = SaveInfo(images, dpi, enforce_A4)
               /\ writes' = IF fail = 0 THEN plan ELSE SubSeq(plan, 1, fail - 1)
               /\ save_rc' = IF fail = 0 THEN 0 ELSE -1
    /\ save_call' = [pfname |-> pfname, tp |-> tp, dpi |-> dpi,
                     enforce_A4 |-> enforce_A4, landscape |-> landscape]
    /\ drag' = NoDrag
    /\ op' = "save_images"
    /\ UNCHANGED <<scanVars, drvVars, scan_ready, images, threads, guiVars,
                   issued, sel, status_A4, a4_in, a4_out, call_args, call_ret>>

SaveDpis == {NoDpi, <<150, 150>>}

SaveStep ==
    \E pfname \in Paths, tp \in OutputTypes, dpi \in SaveDpis,
       enforce_A4 \in A4Modes, landscape \in BOOLEAN,
       fail \in 0..Len(images) :
        save_images(pfname, tp, dpi, enforce_A4, landscape, fail)

\* What an image has as info['dpi'] when it comes from the driver.
ScanDpis == {NoDpi, <<300, 300>>}

\* The collection after n appends of a feeder run.
Scanned(n) ==
    [k \in 1..n |-> [name |-> FormatName(k - 1, "adf"), image |-> k]]

\* A Scan object whose collection holds n scanned images, no run in
\* flight; the images come with or without a dpi entry.
InitDocument(max) ==
    /\ data_request_stop = FALSE
    /\ data_devices = [c \in Codes |-> None]
    /\ drv_open = [c \in Codes |-> {}]
    /\ scan_ready = TRUE
    /\ threads = [t \in ThreadIds |-> NoThread]
    /\ thread_scan = None
    /\ thread_init_alive = FALSE
    /\ var_combo_device = DefaultCode
    /\ button_scan_fb = "normal"
    /\ button_scan_adf = "normal"
    /\ events = [init_complete |-> 0, scan_complete_single_multi |-> 0,
                 scan_complete |-> 0]
    /\ handlers_bound = TRUE
    /\ init_rc = NoResult
    /\ drv_frames = 0
    /\ \E n \in 0..max, dpi \in ScanDpis :
          /\ images = Scanned(n)
          /\ label_pages_number = n
          /\ data_next_index_image = n
          /\ issued = [k \in 1..n |-> FormatName(k - 1, "adf")]
          /\ sel = n - 1
          /\ info_dpi = [i \in 1..max |-> IF i <= n THEN dpi ELSE NoDpi]
    /\ status_A4 = "none"
    /\ drag = NoDrag
    /\ save_call = NoCall
    /\ writes = <<>>
    /\ save_rc = -1
    /\ op = "none"
    /\ a4_in = NoA4In
    /\ a4_out = NoA4Out
    /\ call_args = NoArgs
    /\ call_ret = NoArgs

\* ------------------------------------------------------------ Preview tab
\* show_preview / update_preview_image for the entry at position index (-1:
\* no entry, the empty icon is shown): with an A4 mode chosen the stored
\* image is handed to convert_to_A4, without a dpi.
ShownInfo(info, d, index, need_A4) ==
    [i \in DOMAIN info |->
        IF need_A4 # "none" /\ index >= 0 /\ d[index + 1].image = i
        THEN ConvertInfo(info[i], NoDpi)
        ELSE info[i]]

\* The image is dropped: nothing refers to it any more.
Forget(info, image) == [info EXCEPT ![image] = NoDpi]

\* Position (from 0) of the key name in d.
IndexOf(d, name) == CHOOSE j \in 0..(Len(d) - 1) : d[j + 1].name = name

NoSave == save_call' = NoCall /\ writes' = <<>> /\ save_rc' = -1

\* combo_A4 <<ComboboxSelected>>: handler_update_preview_image.
handler_update_preview_image(mode) ==
    /\ scan_ready
    /\ status_A4' = mode
    /\ info_dpi' = ShownInfo(info_dpi, images, sel, mode)
    /\ drag' = NoDrag
    /\ op' = "update_preview_image"
    /\ NoSave
    /\ UNCHANGED <<scanVars, drvVars, scan_ready, images, threads, guiVars,
                   issued, sel, a4_in, a4_out, call_args, call_ret>>

\* <<ListboxSelect>> on the entry at position index: handler_show_preview.
handler_show_preview(index) ==
    /\ scan_ready
    /\ index \in 0..(Len(images) - 1)
    /\ sel' = index
    /\ info_dpi' = ShownInfo(info_dpi, images, index, status_A4)
    /\ drag' = NoDrag
    /\ op' = "show_preview"
    /\ NoSave
    /\ UNCHANGED <<scanVars, drvVars, scan_ready, images, threads, guiVars,
                   issued, status_A4, a4_in, a4_out, call_args, call_ret>>

\* image_up_dn lines 344-349: the position the selection goes to.
UpDnIndex(index, up, n) ==
    LET j == IF up THEN index - 1 ELSE index + 1
    IN IF j < 0 THEN 0 ELSE IF j >= n THEN n - 1 ELSE j

\* ScanGui.image_up_dn(up): the buttons "up" and "down" of the preview tab.
image_up_dn(up) ==
    /\ scan_ready
    /\ sel >= 0
    /\ sel' = UpDnIndex(sel, up, Len(images))
    /\ info_dpi' = ShownInfo(info_dpi, images, sel', status_A4)
    /\ drag' = NoDrag
    /\ op' = "image_up_dn"
    /\ NoSave
    /\ UNCHANGED <<scanVars, drvVars, scan_ready, images, threads, guiVars,
                   issued, status_A4, a4_in, a4_out, call_args, call_ret>>

\* handler_listbox_preview_b1up with the preview tab: the collection is
\* reordered, the moved entry is selected (update_listbox_preview(entry0))
\* and shown (show_preview(entry0)).
listbox_preview_b1up(index0, index1, addendum) ==
    /\ scan_ready
    /\ index0 # index1
    /\ images' = Reordered(images, index0, index1, addendum)
    /\ sel' = IndexOf(images', images[index0 + 1].name)
    /\ info_dpi' = ShownInfo(info_dpi, images', sel', status_A4)
    /\ drag' = [index0 |-> index0, index1 |-> index1, addendum |-> addendum]
    /\ op' = "listbox_preview_b1up"
    /\ NoSave
    /\ UNCHANGED <<scanVars, drvVars, scan_ready, threads, guiVars, issued,
                   status_A4, a4_in, a4_out, call_args, call_ret>>

\* delete_image lines 583-587: the position selected after the entry at
\* position index is gone and n entries are left.
IndexAfterDelete(index, n) ==
    IF n = 0 THEN -1 ELSE IF index < n THEN index ELSE index - 1

\* handler_listbox_preview_delete: ScanGui.delete_image with the preview
\* tab (update_previews_tab selects and shows the entry that follows).
handler_listbox_preview_delete ==
    /\ scan_ready
    /\ sel >= 0
    /\ images' = del_image_by_name(images, images[sel + 1].name)
    /\ sel' = IndexAfterDelete(sel, Len(images'))
    /\ info_dpi' = ShownInfo(Forget(info_dpi, images[sel + 1].image),
                             images', sel', status_A4)
    /\ drag' = NoDrag
    /\ op' = "delete_image"
    /\ NoSave
    /\ UNCHANGED <<scanVars, drvVars, scan_ready, threads, guiVars, issued,
                   status_A4, a4_in, a4_out, call_args, call_ret>>

\* pfname_out.lower().endswith('png'), for the names of Paths.
EndsWithPng(pfname) == pfname.name = "scan.png"

\* ScanGui.save ("Save All ..."): nothing is done without images or when
\* the file dialog returns no path; the type follows from the path, the A4
\* mode and landscape from the widgets, no dpi is passed.
save(pfname, landscape, fail) ==
    /\ Len(images) # 0
    /\ pfname # EmptyPath
    /\ save_images(pfname, IF EndsWithPng(pfname) THEN "png" ELSE "pdf",
                   NoDpi, status_A4, landscape, fail)

InitDoc == InitDocument(MaxPages)

NextDoc ==
    \/ \E mode \in A4Modes : handler_update_preview_image(mode)
    \/ \E index \in 0..(MaxPages - 1) : handler_show_preview(index)
    \/ \E up \in BOOLEAN : image_up_dn(up)
    \/ \E index0, index1 \in 0..(Len(images) - 1), addendum \in {0, 1} :
          listbox_preview_b1up(index0, index1, addendum)
    \/ handler_listbox_preview_delete
    \/ \E pfname \in Paths, landscape \in BOOLEAN, fail \in 0..Len(images) :
          save(pfname, landscape, fail)

SpecDoc == InitDoc /\ [][NextDoc]_vars

InitFiles == InitDocument(MaxFiles)

NextFiles == SaveStep

SpecFiles == InitFiles /\ [][NextFiles]_vars

\* --------------------------------------------------------- convert_to_A4
\* 8.27 and 11.69 inches, in hundredths of an inch.
A4WidthHundredths == 827
A4HeightHundredths == 1169

\* Python's round() of the exact quotient num / den: to the nearest
\* integer, an exact half to the even neighbour.
PyRound(num, den) ==
    LET q == num \div den
        r == num % den
    IN IF 2 * r < den THEN q
       ELSE IF 2 * r > den THEN q + 1
       ELSE IF q % 2 = 0 THEN q ELSE q + 1

\* round() of a product of binary floating-point numbers whose exact value
\* is num / den. The operands (8.27, 11.69, the quotients) are not exact in
\* binary, so the computed product differs from the exact value by a few
\* units in the last place: away from a half this does not change the
\* rounded integer; at an exact half the computed product is at, just below
\* or just above the half, depending on the operands, and the result is
\* either neighbour.
Rounds(num, den) ==
    LET q == num \div den
        r == num % den
    IN IF 2 * r < den THEN {q}
       ELSE IF 2 * r > den THEN {q + 1}
       ELSE {q, q + 1}

\* convert_to_A4 line 382: width_px * sqrt(2) >= height_px.
WidthIsDominant(w, h) == 2 * w * w >= h * h

\* convert_to_A4 lines 376-378: dim_A4_px with stretch_content.
StretchDims(w, h, dx, dy) ==
    Rounds(w * A4WidthHundredths * dx, 100 * w)
        \X Rounds(h * A4HeightHundredths * dy, 100 * h)

\* convert_to_A4 lines 385-394: dim_A4_px_content.
ContentDims(w, h, dx, dy) ==
    IF WidthIsDominant(w, h)
    THEN Rounds(w * A4WidthHundredths * dx, 100 * w)
            \X Rounds(h * A4WidthHundredths * dx, 100 * w)
    ELSE Rounds(w * A4HeightHundredths * dy, 100 * h)
            \X Rounds(h * A4HeightHundredths * dy, 100 * h)

\* convert_to_A4 lines 389, 394, 396: dim_A4_px for the content c. The
\* factor of the padded side divides by that side of the content.
PadDims(w, h, dx, dy, c) ==
    IF WidthIsDominant(w, h)
    THEN {c[1]} \X Rounds(A4HeightHundredths * dy * c[2], 100 * c[2])
    ELSE Rounds(A4WidthHundredths * dx * c[1], 100 * c[1]) \X {c[2]}

\* The side of the content the factor divides by is 0: ZeroDivisionError.
DividesByZero(w, h, c) ==
    IF WidthIsDominant(w, h) THEN c[2] = 0 ELSE c[1] = 0

\* What convert_to_A4(im_input, dpi=..., stretch_content=...) can return
\* or raise for the arguments in.
A4Outcomes(in) ==
    LET info == ConvertInfo(in.info, in.dpi)
        w == in.size[1]
        h == in.size[2]
        dx == info[1]
        dy == info[2]
    IN IF in.stretch
       THEN {[raised |-> FALSE, size |-> s, content |-> s, info |-> info] :
                s \in StretchDims(w, h, dx, dy)}
       ELSE UNION {IF DividesByZero(w, h, c)
                   THEN {[raised |-> TRUE, size |-> <<0, 0>>, content |-> c,
                          info |-> info]}
                   ELSE {[raised |-> FALSE, size |-> s, content |-> c,
                          info |-> info] : s \in PadDims(w, h, dx, dy, c)} :
                      c \in ContentDims(w, h, dx, dy)}

\* Widths and heights of input images, in pixels.
Pixels == {1, 600, 800, 1240, 1754, 2000}
\* info['dpi'] of input images and dpi arguments.
InfoDpis == {NoDpi, <<72, 72>>, <<150, 150>>, <<300, 300>>}
ArgDpis == {NoDpi, <<150, 150>>}

\* Scan.convert_to_A4 applied to the arguments a4_in.
convert_to_A4 ==
    /\ op = "none"
    /\ a4_out' \in A4Outcomes(a4_in)
    /\ op' = "convert_to_A4"
    /\ UNCHANGED <<scanVars, drvVars, scan_ready, images, threads, guiVars,
                   issued, info_dpi, sel, status_A4, drag, save_call, writes,
                   save_rc, a4_in, call_args, call_ret>>

InitA4 ==
    /\ data_next_index_image = 0
    /\ data_request_stop = FALSE
    /\ data_devices = [c \in Codes |-> None]
    /\ drv_open = [c \in Codes |-> {}]
    /\ drv_frames = 0
    /\ scan_ready = TRUE
    /\ images = <<>>
    /\ threads = [t \in ThreadIds |-> NoThread]
    /\ thread_scan = None
    /\ thread_init_alive = FALSE
    /\ var_combo_device = "<empty>"
    /\ button_scan_fb = "disabled"
    /\ button_scan_adf = "disabled"
    /\ events = [init_complete |-> 0, scan_complete_single_multi |-> 0,
                 scan_complete |-> 0]
    /\ label_pages_number = Len(images)
    /\ handlers_bound = FALSE
    /\ init_rc = NoResult
    /\ issued = <<>>
    /\ info_dpi = [i \in 1..MaxFrames |-> NoDpi]
    /\ sel = -1
    /\ status_A4 = "none"
    /\ drag = NoDrag
    /\ save_call = NoCall
    /\ writes = <<>>
    /\ save_rc = -1
    /\ op = "none"
    /\ a4_in \in [size : Pixels \X Pixels, info : InfoDpis, dpi : ArgDpis,
                  stretch : BOOLEAN]
    /\ a4_out = NoA4Out
    /\ call_args = NoArgs
    /\ call_ret = NoArgs

NextA4 == convert_to_A4

SpecA4 == InitA4 /\ [][NextA4]_vars

\* ------------------------------------------------------- device options
\* Python values as the option code sees them: the type and the text.
PyNone == [py |-> "NoneType", text |-> <<>>]
PyStr(chars) == [py |-> "str", text |-> chars]
PyInt(chars) == [py |-> "int", text |-> chars]

\* The resolution arguments: None (the default), '300' and 'high' from the
\* command line (argparse type=str), 300 from a caller of the class.
Resolutions == {PyNone, PyStr(<<"3", "0", "0">>), PyStr(<<"h", "i", "g", "h">>),
                PyInt(<<"3", "0", "0">>)}

\* What the driver holds for an option of the given type.
OptionValue(type) ==
    IF type = "TYPE_INT" THEN PyInt(<<"7", "5">>)
    ELSE IF type = "TYPE_STRING" THEN PyStr(<<"7", "5">>)
    ELSE IF type = "TYPE_BOOL" THEN [py |-> "bool", text |-> <<"F">>]
    ELSE [py |-> "float", text |-> <<"7", "5">>]

\* The 'resolution' option of a device, as get_option returns it: absent
\* (None), or a sane.Option with is_settable(), type and constraint; the
\* constraint of an Option is None, a list of values or a (min, max, step)
\* tuple.
Options ==
    {[present |-> FALSE, settable |-> FALSE, type |-> "TYPE_INT",
      constraint |-> "None", value |-> OptionValue("TYPE_INT")]}
    \cup {[present |-> TRUE, settable |-> s, type |-> t, constraint |-> c,
           value |-> OptionValue(t)] :
              s \in BOOLEAN,
              t \in {"TYPE_INT", "TYPE_STRING", "TYPE_BOOL", "TYPE_FIXED"},
              c \in {"None", "list", "tuple"}}

\* int(val) raises ValueError for a string that is not a decimal literal.
IntRaises(val) ==
    /\ val.py = "str"
    /\ \/ Len(val.text) = 0
       \/ \E i \in 1..Len(val.text) :
             \A d \in 1..Len(DigitChar) : val.text[i] # DigitChar[d]

\* set_option lines 233-241: int(val), str(val), bool(val).
Coerced(type, val) ==
    IF type = "TYPE_INT" THEN PyInt(val.text)
    ELSE IF type = "TYPE_STRING" THEN PyStr(val.text)
    ELSE [py |-> "bool", text |-> IF Len(val.text) = 0 THEN <<"F">> ELSE <<"T">>]

\* Scan.set_option(dev, val, key): what it returns (rc) or raises, and the
\* option afterwards. rejects: setattr raises _sane.error. The membership
\* test of line 245 raises TypeError on a constraint of None; the try of
\* lines 244-250 catches _sane.error only.
set_option(option, val, rejects) ==
    LET returns(rc) == [raised |-> "none", rc |-> rc, option |-> option]
    IN IF val = PyNone THEN returns(0)
       ELSE IF ~option.present \/ ~option.settable THEN returns(1)
       ELSE IF option.type = "TYPE_INT" /\ IntRaises(val) THEN returns(2)
       ELSE IF option.type \notin {"TYPE_INT", "TYPE_STRING", "TYPE_BOOL"}
       THEN returns(3)
       ELSE IF option.constraint = "None"
       THEN [raised |-> "TypeError", rc |-> -1, option |-> option]
       ELSE IF rejects THEN returns(4)
       ELSE [raised |-> "none", rc |-> 0,
             option |-> [option EXCEPT !.value = Coerced(option.type, val)]]

\* Scan.set_resolution(device, self.resolution), as scan_adf line 460 and
\* scan_flatbed line 497 call it.
set_resolution ==
    /\ op = "none"
    /\ call_ret' = set_option(call_args.option, call_args.val, call_args.rejects)
    /\ op' = "set_option"
    /\ UNCHANGED <<scanVars, drvVars, scan_ready, images, threads, guiVars,
                   issued, info_dpi, sel, status_A4, drag, save_call, writes,
                   save_rc, a4_in, a4_out, call_args>>

\* A Scan object without GUI, no device opened, nothing scanned.
ScanIdle ==
    /\ data_next_index_image = 0
    /\ data_request_stop = FALSE
    /\ data_devices = [c \in Codes |-> None]
    /\ drv_open = [c \in Codes |-> {}]
    /\ drv_frames = 0
    /\ scan_ready = TRUE
    /\ images = <<>>
    /\ threads = [t \in ThreadIds |-> NoThread]
    /\ thread_scan = None
    /\ thread_init_alive = FALSE
    /\ var_combo_device = "<empty>"
    /\ button_scan_fb = "disabled"
    /\ button_scan_adf = "disabled"
    /\ events = [init_complete |-> 0, scan_complete_single_multi |-> 0,
                 scan_complete |-> 0]
    /\ label_pages_number = Len(images)
    /\ handlers_bound = FALSE
    /\ init_rc = NoResult
    /\ issued = <<>>

InitOption ==
    /\ ScanIdle
    /\ AssemblerIdle(1..MaxFrames)
    /\ call_args \in [option : Options, val : Resolutions, rejects : BOOLEAN]
    /\ call_ret = NoArgs

SpecOption == InitOption /\ [][set_resolution]_vars

\* ------------------------------------------------------- device codes
\* Codes and hints as strings of characters; the characters tell upper
\* from lower case and one letter from another.
MaxCodeLen == 2
MaxDevices == 2
Chars == {"a", "A", "b"}
Strings(n) == UNION {[1..k -> Chars] : k \in 0..n}

\* str.lower()
lower(s) == [i \in 1..Len(s) |-> IF s[i] = "A" THEN "a" ELSE s[i]]

\* sub in s, for strings
Contains(s, sub) ==
    \E k \in 0..(Len(s) - Len(sub)) : \A i \in 1..Len(sub) : s[k + i] = sub[i]

\* defaults['code'], within the characters of the model
defaults_code == <<"a", "b">>

\* The positions of the descriptors complete_code_hint's first loop
\* (exact) or second loop accepts for the lower-cased hint h.
Matches(info, h, exact) ==
    {i \in 1..Len(info) :
        IF exact THEN lower(info[i]) = h ELSE Contains(lower(info[i]), h)}

\* A completion that has the substring loop only.
complete_code_hint_contains(info, hint, given) ==
    LET h == lower(IF given THEN hint ELSE defaults_code)
        sub == Matches(info, h, FALSE)
    IN IF sub # {}
       THEN [found |-> TRUE,
             code |-> info[CHOOSE i \in sub : \A j \in sub : i <= j]]
       ELSE [found |-> FALSE, code |-> <<>>]

\* Scan.complete_code_hint(code_hint) over Scan.data_devices_info = info
\* (the codes of the descriptors, in discovery order); given: code_hint is
\* not None. found = FALSE: it returns None.
complete_code_hint(info, hint, given) ==
    LET h == lower(IF given THEN hint ELSE defaults_code)
        eq == Matches(info, h, TRUE)
        sub == Matches(info, h, FALSE)
    IN IF eq # {}
       THEN [found |-> TRUE,
             code |-> info[CHOOSE i \in eq : \A j \in eq : i <= j]]
       ELSE IF sub # {}
       THEN [found |-> TRUE,
             code |-> info[CHOOSE i \in sub : \A j \in sub : i <= j]]
       ELSE [found |-> FALSE, code |-> <<>>]

\* A call of complete_code_hint with the arguments call_args.
CompleteCodeHint ==
    /\ op = "none"
    /\ call_ret' = complete_code_hint(call_args.info, call_args.hint,
                                      call_args.given)
    /\ op' = "complete_code_hint"
    /\ UNCHANGED <<scanVars, drvVars, scan_ready, images, threads, guiVars,
                   issued, info_dpi, sel, status_A4, drag, save_call, writes,
                   save_rc, a4_in, a4_out, call_args>>

\* Any discovery result of up to MaxDevices devices, any hint or none.
InitHint ==
    /\ ScanIdle
    /\ AssemblerIdle(1..MaxFrames)
    /\ \E n \in 0..MaxDevices :
          \E info \in [1..n -> Strings(MaxCodeLen) \ {<<>>}],
             hint \in Strings(MaxCodeLen), given \in BOOLEAN :
                /\ given \/ hint = <<>>
                /\ call_args = [info |-> info, hint |-> hint, given |-> given]
    /\ call_ret = NoArgs

SpecHint == InitHint /\ [][CompleteCodeHint]_vars

\* --------------------------------------------- del_image_by_name, direct
\* What del_image_by_name returns: the number of deleted images.
del_image_by_name_rc(d, name) == IF name \in Keys(d) THEN 1 ELSE 0

\* The names a caller tries: the keys issued and one never issued.
NamesTried == {FormatName(k, "adf") : k \in 0..MaxPages}

\* scan.del_image_by_name(name) called by the program.
DelImage(name) ==
    /\ images' = del_image_by_name(images, name)
    /\ call_args' = name
    /\ call_ret' = del_image_by_name_rc(images, name)
    /\ op' = "del_image_by_name"
    /\ UNCHANGED <<scanVars, drvVars, scan_ready, threads, guiVars, issued,
                   info_dpi, sel, status_A4, drag, save_call, writes, save_rc,
                   a4_in, a4_out>>

SpecDel == InitDoc /\ [][\E name \in NamesTried : DelImage(name)]_vars

\* ------------------------------------------- save_images, one page's size
\* Image.rotate(90, expand=True): the canvas takes the rotated image whole,
\* width and height change places.
rotate(size) == <<size[2], size[1]>>

\* save_images lines 411-421 for one image of the collection: dpi2tuple,
\* convert_to_A4 with that dpi when an A4 mode is asked for, rotate when
\* landscape is set. normal: the size after line 416; size: after line 421.
PageOutcomes(in) ==
    LET normals ==
            IF in.enforce_A4 = "none"
            THEN {[raised |-> FALSE, size |-> in.size]}
            ELSE {[raised |-> o.raised, size |-> o.size] :
                    o \in A4Outcomes([size |-> in.size, info |-> in.info,
                                      dpi |-> dpi2tuple(in.dpi),
                                      stretch |-> in.enforce_A4 = "stretch"])}
    IN {[raised |-> n.raised, normal |-> n.size,
         size |-> IF in.landscape /\ ~n.raised THEN rotate(n.size)
                  ELSE n.size] : n \in normals}

\* Scan.save_images, as far as the size of a page goes.
SavePage ==
    /\ op = "none"
    /\ call_ret' \in PageOutcomes(call_args)
    /\ op' = "save_page"
    /\ UNCHANGED <<scanVars, drvVars, scan_ready, images, threads, guiVars,
                   issued, info_dpi, sel, status_A4, drag, save_call, writes,
                   save_rc, a4_in, a4_out, call_args>>

InitPage ==
    /\ ScanIdle
    /\ AssemblerIdle(1..MaxFrames)
    /\ call_args \in [size : Pixels \X Pixels, info : InfoDpis, dpi : ArgDpis,
                      enforce_A4 : A4Modes, landscape : BOOLEAN]
    /\ call_ret = NoArgs

SpecPage == InitPage /\ [][SavePage]_vars

\* ------------------------------------------------- dpi values, in general
\* dpi values here are in hundredths of a dot per inch, so that
\* min_dpi = 0.01 is 1.
MinDpiHundredths == 1

\* The dpi arguments of the model: None, a number, a pair of numbers; zero
\* and negative numbers included.
DpiNumbers == {-7200, 0, 7200, 30000}
DpiArgs ==
    {[kind |-> "None", x |-> 0, y |-> 0]}
    \cup {[kind |-> "number", x |-> n, y |-> n] : n \in DpiNumbers}
    \cup {[kind |-> "pair", x |-> a, y |-> b] : a, b \in DpiNumbers}

\* Scan.dpi2tuple(dpi), lines 345-355: `not dpi` (None and the number 0)
\* takes the default, a number becomes a pair, each component is raised to
\* min_dpi.
dpi2tuple_general(dpi) ==
    LET d == IF dpi.kind = "None" \/ (dpi.kind = "number" /\ dpi.x = 0)
             THEN [kind |-> "number", x |-> 100 * DefaultDpi,
                   y |-> 100 * DefaultDpi]
             ELSE dpi
        max(a, b) == IF a >= b THEN a ELSE b
    IN <<max(MinDpiHundredths, d.x), max(MinDpiHundredths, d.y)>>

\* convert_to_A4 lines 367-372: info['dpi'] is set by dpi2tuple when the
\* image has none or a dpi is given; otherwise the image's own entry is
\* used as it is. width_px / dpi_x and height_px / dpi_y raise
\* ZeroDivisionError on a zero component.
ConvertDpi ==
    /\ op = "none"
    /\ LET used == IF ~call_args.has_dpi \/ call_args.dpi.kind # "None"
                   THEN dpi2tuple_general(call_args.dpi)
                   ELSE call_args.info
       IN call_ret' = [tuple |-> dpi2tuple_general(call_args.dpi),
                       used |-> used,
                       raised |-> used[1] = 0 \/ used[2] = 0]
    /\ op' = "convert_dpi"
    /\ UNCHANGED <<scanVars, drvVars, scan_ready, images, threads, guiVars,
                   issued, info_dpi, sel, status_A4, drag, save_call, writes,
                   save_rc, a4_in, a4_out, call_args>>

\* An image with or without a 'dpi' entry (any pair of numbers a file can
\* carry, zero included) and any dpi argument.
InitDpi ==
    /\ ScanIdle
    /\ AssemblerIdle(1..MaxFrames)
    /\ \E has_dpi \in BOOLEAN, info \in {0, 7200, 30000} \X {0, 7200, 30000},
          dpi \in DpiArgs :
             /\ has_dpi \/ info = <<0, 0>>
             /\ call_args = [has_dpi |-> has_dpi, info |-> info, dpi |-> dpi]
    /\ call_ret = NoArgs

SpecDpi == InitDpi /\ [][ConvertDpi]_vars

\* --------------------------------------------- convert_to_A4, pad mode
\* The pixels of an image as far as getbbox() sees them: which lines at
\* the rim of the scaled content are zero (black) throughout.
BlackRims == {"none", "left", "top", "right", "bottom", "all"}

\* No box: what getbbox() returns for an image without a non-zero pixel.
NoBox == <<>>

\* Image.getbbox() of the scaled content of size c: the bounding box
\* (left, upper, right, lower) of its non-zero pixels.
getbbox(c, black) ==
    LET l == IF black = "left" THEN 1 ELSE 0
        u == IF black = "top" THEN 1 ELSE 0
        r == IF black = "right" THEN c[1] - 1 ELSE c[1]
        b == IF black = "bottom" THEN c[2] - 1 ELSE c[2]
    IN IF black = "all" \/ l >= r \/ u >= b THEN NoBox ELSE <<l, u, r, b>>

\* Image.paste(im, box) for an image of size c: without a box the image goes
\* to (0, 0); a box of four numbers must have the size of the image
\* (ValueError otherwise) and its corner is where the image goes.
paste(c, box) ==
    IF box = NoBox THEN [raised |-> "none", at |-> <<0, 0>>]
    ELSE IF <<box[3] - box[1], box[4] - box[2]>> = c
         THEN [raised |-> "none", at |-> <<box[1], box[2]>>]
         ELSE [raised |-> "ValueError", at |-> NoBox]

\* convert_to_A4 lines 380-399 for the image a4_in whose pixels are
\* call_args.black: content size, canvas size, paste.
convert_to_A4_pad ==
    /\ op = "none"
    /\ \E o \in A4Outcomes(a4_in) :
          /\ a4_out' = o
          /\ call_ret' =
                IF o.raised
                THEN [raised |-> "ZeroDivisionError", at |-> NoBox]
                ELSE paste(o.content, getbbox(o.content, call_args.black))
    /\ op' = "convert_to_A4_pad"
    /\ UNCHANGED <<scanVars, drvVars, scan_ready, images, threads, guiVars,
                   issued, info_dpi, sel, status_A4, drag, save_call, writes,
                   save_rc, a4_in, call_args>>

\* Sizes of input images: square, landscape, A4 at 150 dpi, an aspect
\* ratio between 8.27:11.69 and 1:sqrt(2), very tall, very wide.
PadSizes == {<<600, 600>>, <<800, 600>>, <<1240, 1754>>, <<1061, 1500>>,
             <<1, 2000>>, <<2000, 1>>}
\* info['dpi'] of input images, dpi_x and dpi_y equal or not.
PadDpis == {<<72, 72>>, <<300, 300>>, <<300, 150>>, <<150, 300>>}

InitPad ==
    /\ ScanIdle
    /\ info_dpi = [i \in 1..MaxFrames |-> NoDpi]
    /\ sel = -1
    /\ status_A4 = "none"
    /\ drag = NoDrag
    /\ save_call = NoCall
    /\ writes = <<>>
    /\ save_rc = -1
    /\ op = "none"
    /\ \E size \in PadSizes, info \in PadDpis :
          a4_in = [size |-> size, info |-> info, dpi |-> NoDpi,
                   stretch |-> FALSE]
    /\ a4_out = NoA4Out
    /\ \E black \in BlackRims : call_args = [black |-> black]
    /\ call_ret = NoArgs

SpecPad == InitPad /\ [][convert_to_A4_pad]_vars

\* ------------------------------------------------------------- sanity
TypeOK ==
    /\ data_next_index_image \in 0..MaxFrames
    /\ data_request_stop \in BOOLEAN
    /\ \A c \in Codes : data_devices[c] \in HandleIds \cup {None}
    /\ \A c \in Codes : drv_open[c] \subseteq HandleIds
    /\ drv_frames \in 0..MaxFrames
    /\ thread_scan \in ThreadIds \cup {None}
    /\ \A t \in ThreadIds : threads[t].pc \in AlivePcs \cup {"none", "finished", "crashed"}
    /\ (button_scan_fb = "normal" \/ button_scan_adf = "normal") => scan_ready
    /\ init_rc.rc \in {-1, 0, 2}

DocTypeOK ==
    /\ save_rc \in -1..2
    /\ sel \in -1..(Len(images) - 1)
    /\ Len(writes) <= Len(images)
    /\ \A i \in DOMAIN info_dpi : info_dpi[i] \in {NoDpi} \cup (Nat \X Nat)

\* ------------------------------------------------------------ properties
Range(f) == {f[i] : i \in 1..Len(f)}

\* Scan.parse_index_from_name for the names get_next_name builds.
IndexOfName(name) ==
    CHOOSE k \in 0..MaxFrames :
        \E tag \in {"adf", "flatbed"} : name = FormatName(k, tag)

\* The run of thread t ends with this step (it returns or an exception
\* leaves it).
RunEnds(t) == Alive(t) /\ threads'[t].pc \notin AlivePcs

\* The collection of the run of thread t after a step of that run.
CollNext(t) == IF threads[t].alias THEN images' ELSE threads'[t].own

\* A step of the run of thread t leaves the collections and the counter as
\* they are.
NothingStored(t) ==
    /\ images' = images
    /\ threads'[t].pc \in AlivePcs => threads'[t].own = threads[t].own
    /\ data_next_index_image' = data_next_index_image

\* A step of the run of thread t appends the frame the driver returned in
\* this step at the end of its collection, under the next name of `tag`,
\* which is not yet a key of the collection.
AppendsFrame(t, tag) ==
    LET name == FormatName(data_next_index_image, tag)
    IN /\ name \notin Keys(Coll(t))
       /\ name \notin Range(issued)
       /\ CollNext(t) = Append(Coll(t), [name |-> name, image |-> drv_frames'])
       /\ data_next_index_image' = data_next_index_image + 1

\* C1: between two resets get_next_name never returns a name twice, the
\* name it returns next is none of those it returned, and every key of a
\* collection is a name it returned: an append takes a key no earlier
\* append took, also when the entry of that key has been deleted, and
\* overwrites no entry.
KeysNeverReused ==
    /\ \A i, j \in 1..Len(issued) : i # j => issued[i] # issued[j]
    /\ \A tag \in {"adf", "flatbed"} :
          FormatName(data_next_index_image, tag) \notin Range(issued)
    /\ Keys(images) \subseteq Range(issued)
    /\ \A t \in ThreadIds : Alive(t) => Keys(Coll(t)) \subseteq Range(issued)

\* Two names were issued, the entry of the first has been deleted and the
\* second was appended after that.
KeyIssuedAfterDelete ==
    /\ Len(issued) = 2
    /\ Len(images) = 1
    /\ images[1].name = issued[2]
    /\ images[1].name = FormatName(1, "adf")

\* C2: a feeder run that was started ends having called cb_done exactly
\* once, whatever its outcome, and it calls cb_done only when its handle is
\* closed and the table has no entry for its code.
FeederRunNotifiesOnce ==
    [][\A t \in ThreadIds :
          threads[t].tp = "adf" =>
             /\ threads'[t].cb > threads[t].cb =>
                   /\ threads[t].cb = 0
                   /\ threads[t].device \notin drv_open[threads[t].code]
                   /\ data_devices[threads[t].code] = None
             /\ RunEnds(t) => threads[t].cb = 1]_vars

\* C3: once scan_stop has been called for the device of a feeder run in
\* flight (from the launch of its thread on), the run issues no new frame
\* request.
NoRequestAfterStop ==
    [][\A t \in ThreadIds :
          (threads[t].tp = "adf" /\ threads[t].stop_req) =>
             threads'[t].req <= threads[t].req]_vars

RunEndsClosed ==
    [][\A t \in ThreadIds :
          RunEnds(t) =>
             /\ threads[t].device \notin drv_open'[threads[t].code]
             /\ data_devices'[threads[t].code] = None]_vars

\* C6: a run in which a frame request raised is past its last frame
\* request: exactly one request raised, and the run is at its close or
\* behind it, from where no frame request is issued.
NoRequestAfterError ==
    \A t \in ThreadIds :
        threads[t].errs >= 1 =>
           /\ threads[t].errs = 1
           /\ threads[t].pc \in {"closing", "unreg", "notify", "done"}

\* A feeder run got a frame, its next request raised an error other than
\* the empty feeder, and the run went on to its end.
FeederRunAfterError ==
    \E t \in ThreadIds :
        /\ threads[t].tp = "adf"
        /\ threads[t].pc = "done"
        /\ threads[t].last \in {"sane", "other"}
        /\ threads[t].errs = 1
        /\ threads[t].req = 2

\* C7: at most one acquisition thread is alive.
AtMostOneRun == Cardinality({t \in ThreadIds : Alive(t)}) <= 1

\* A scan button was pressed while a run was in flight, and the run is
\* still in flight.
ScanPressedDuringRun ==
    \E t \in ThreadIds :
        /\ Alive(t)
        /\ threads[t].stop_req
        /\ thread_scan = t

\* The step in which the frame request of a flatbed run returns or raises.
\* honours_stop: a frame is only expected in the collection when no stop
\* was requested.
FlatbedFrameStep(t, honours_stop) ==
    (threads[t].tp = "flatbed" /\ threads[t].pc = "scanning"
        /\ threads'[t].pc # "scanning") =>
    IF drv_frames' # drv_frames
    THEN /\ threads'[t].pc = "closing"
         /\ IF honours_stop /\ data_request_stop
            THEN NothingStored(t) /\ issued' = issued
            ELSE AppendsFrame(t, "flatbed")
    ELSE NothingStored(t) /\ issued' = issued

\* A flatbed run issues one frame request, whose _sane.error takes the run
\* to its close, and the close releases the handle.
FlatbedOneRequest ==
    \A t \in ThreadIds :
        threads[t].tp = "flatbed" =>
           /\ threads[t].req =
                 IF threads[t].pc \in {"init", "opening", "entry", "config"}
                 THEN 0 ELSE 1
           /\ threads[t].last \in {"empty", "sane"} =>
                 threads[t].pc \in {"closing", "unreg", "notify", "done"}
           /\ threads[t].pc \in {"unreg", "notify", "done"} =>
                 threads[t].device \notin drv_open[threads[t].code]

OpenHandlesRegistered ==
    \A c \in Codes : drv_open[c] \subseteq {data_devices[c]}

\* init_device was called for a code that had a handle: the second handle
\* is the one open and registered.
DeviceReopened ==
    \E c \in Codes : data_devices[c] = 2 /\ drv_open[c] = {2}

\* C10: after a call of init_device whose open failed (it returned 2) the
\* table has no entry for the code.
FailedOpenLeavesNoEntry ==
    init_rc.rc = 2 => data_devices[init_rc.code] = None

\* C11: a save to PDF of a collection that is not empty, when its write
\* succeeds, writes exactly one file, at the requested path; the file has
\* one page per image of the collection, in the order of the collection,
\* the page of the first image being the one Image.save is called on.
PdfOnePagePerImage ==
    (op = "save_images" /\ save_rc = 0 /\ save_call.tp = "pdf") =>
       /\ Len(images) > 0
       /\ Len(writes) = 1
       /\ writes[1].path = save_call.pfname
       /\ writes[1].format = "pdf"
       /\ Len(writes[1].pages) = Len(images)
       /\ \A j \in 1..Len(images) :
             /\ writes[1].pages[j].src = images[j].image
             /\ writes[1].pages[j].a4 = save_call.enforce_A4
             /\ writes[1].pages[j].rotated = save_call.landscape

\* A collection whose order is not the order of its names was saved to
\* one PDF file.
PdfOfReordered ==
    /\ op = "save_images"
    /\ save_rc = 0
    /\ Len(images) >= 2
    /\ images[1].name # FormatName(0, "adf")
    /\ Len(writes) = 1
    /\ writes[1].format = "pdf"
    /\ Len(writes[1].pages) = Len(images)
    /\ writes[1].pages[1].src = images[1].image

\* save_images was the last operation and returned 0.
Saved == op = "save_images" /\ save_rc = 0

\* A prefix of decimal digits followed by "_" and the file name.
IsIndexed(name, j, fname) ==
    \E w \in 1..3 : name = ZeroPad(Decimal(j), w) \o "_" \o fname

\* C12: a save to PNG of N > 1 images, when its writes succeed, writes N
\* files, all in the directory of the requested path; the j-th image of the
\* collection goes to the file with the j-th index prefix (from 0) before
\* the requested file name, and the N names are pairwise distinct. A save
\* of one image writes one file, at the requested path itself, without a
\* prefix, whatever the format.
PngOneFilePerImage ==
    Saved =>
       /\ (Len(images) > 1 /\ save_call.tp = "png") =>
             /\ Len(writes) = Len(images)
             /\ \A j \in 1..Len(images) :
                   /\ writes[j].path.parent = save_call.pfname.parent
                   /\ IsIndexed(writes[j].path.name, j - 1,
                                save_call.pfname.name)
                   /\ Len(writes[j].pages) = 1
                   /\ writes[j].pages[1].src = images[j].image
                   /\ writes[j].format = "png"
             /\ \A j, k \in 1..Len(images) :
                   j # k => writes[j].path # writes[k].path
       /\ Len(images) = 1 =>
             /\ Len(writes) = 1
             /\ writes[1].path = save_call.pfname
             /\ writes[1].format = save_call.tp
             /\ Len(writes[1].pages) = 1
             /\ writes[1].pages[1].src = images[1].image

\* Ten images were saved to PNG: the tenth went to the file with prefix 09.
TenPngFiles ==
    /\ Saved
    /\ Len(images) = 10
    /\ Len(writes) = 10
    /\ writes[10].path = [parent |-> "out", name |-> "09_scan.png"]
    /\ writes[10].pages[1].src = images[10].image

\* The number of decimal digits of n.
DigitsOf(n) == Len(Decimal(n))

Pow10(k) == IF k = 0 THEN 1 ELSE IF k = 1 THEN 10 ELSE IF k = 2 THEN 100 ELSE 1000

\* ceil(log10(n)) for 1 <= n <= 1000.
CeilLog10(n) == CHOOSE k \in 0..3 : Pow10(k) >= n /\ (k = 0 \/ Pow10(k - 1) < n)

\* A save to PNG of N > 1 images gave every index prefix the given width,
\* zero-padded.
PrefixWidth(width) ==
    (Saved /\ Len(images) > 1 /\ save_call.tp = "png") =>
       /\ Len(writes) = Len(images)
       /\ \A j \in 1..Len(images) :
             writes[j].path.name =
                ZeroPad(Decimal(j - 1), width)
                   \o "_" \o save_call.pfname.name

SaveRejected ==
    [][op' = "save_images" =>
          /\ Len(images) = 0 => save_rc' = 1
          /\ (Len(images) # 0 /\ save_call'.pfname = EmptyPath) => save_rc' = 2
          /\ save_rc' \in {1, 2} =>
                /\ Len(images) = 0 \/ save_call'.pfname = EmptyPath
                /\ writes' = <<>>
                /\ images' = images
                /\ info_dpi' = info_dpi]_vars

\* A save with padding to A4 and landscape was rejected for its empty
\* path: the first image still has no dpi entry.
RejectedWithA4 ==
    /\ op = "save_images"
    /\ save_rc = 2
    /\ Len(images) > 1
    /\ save_call.enforce_A4 = "pad"
    /\ save_call.landscape
    /\ info_dpi[images[1].image] = NoDpi
    /\ writes = <<>>

\* C15: a save_images call that fails, a write error on one of its files
\* included, reports the failure by its return value, not by an exception,
\* and leaves none of the files of that call behind.
SaveFailureReported ==
    op = "save_images" =>
       /\ save_rc >= 0
       /\ save_rc # 0 => writes = <<>>

\* C18: conversion to A4 works on copies: a save and a refresh of the
\* preview leave every stored image as it was, its dpi entry included, and
\* leave the keys and their order unchanged.
StoredImagesUntouched ==
    [][op' \in {"save_images", "update_preview_image", "show_preview",
                "image_up_dn"}
          => images' = images /\ info_dpi' = info_dpi]_vars

\* convert_to_A4 returned an image of round(8.27 * dpi_x) by
\* round(11.69 * dpi_y) pixels, for the dpi it worked with.
ReturnsA4 ==
    /\ ~a4_out.raised
    /\ a4_out.size = <<PyRound(A4WidthHundredths * a4_out.info[1], 100),
                       PyRound(A4HeightHundredths * a4_out.info[2], 100)>>

\* C16: for every input size of at least 1 pixel each way and every dpi
\* pair, convert_to_A4 in pad mode returns an image of exactly
\* round(8.27 * dpi_x) by round(11.69 * dpi_y) pixels, so that all pages
\* of a document have the same size.
PadGivesA4 == (op = "convert_to_A4" /\ ~a4_in.stretch) => ReturnsA4

\* C17: for every input size and dpi pair, convert_to_A4 in stretch mode
\* returns an image of round(8.27 * dpi_x) by round(11.69 * dpi_y) pixels,
\* whatever the width and the height of the input.
StretchGivesA4 == (op = "convert_to_A4" /\ a4_in.stretch) => ReturnsA4

\* The collection e holds the entries of d, each once, with the entry of
\* position i (from 0) of d put immediately before the entry that was at
\* position p, or at the end when p is past the last entry; the other
\* entries are in the order they had. With p = i the order is the same.
MovedBefore(d, e, i, p) ==
    LET moved == d[i + 1]
        k == IndexOf(e, moved.name)
    IN /\ Len(e) = Len(d)
       /\ Range(e) = Range(d)
       /\ \A j \in 1..Len(e) : e[j] = moved <=> j = k + 1
       /\ OdictDel(e, moved.name) = OdictDel(d, moved.name)
       /\ IF p = i THEN e = d
          ELSE IF p < Len(d) THEN k + 2 <= Len(e) /\ e[k + 2] = d[p + 1]
          ELSE k + 1 = Len(e)

\* C19: dropping the entry of position i at position p (the line under
\* the pointer, or the one after it when the pointer is in its lower half)
\* gives a permutation of the collection with the same pairs of key and
\* image: the moved key is immediately before the key that was at p, or
\* last when p is past the end; the other keys keep their relative order;
\* no key is lost, doubled or renamed.
ReorderMovesOne ==
    [][op' = "listbox_preview_b1up"
          => MovedBefore(images, images', drag'.index0,
                         drag'.index1 + drag'.addendum)]_vars

\* The first scanned image was dragged below the last line: it is the
\* last of at least three entries and it is the one selected.
DraggedToEnd ==
    /\ op = "listbox_preview_b1up"
    /\ Len(images) >= 3
    /\ images[Len(images)].name = FormatName(0, "adf")
    /\ images[1].name = FormatName(1, "adf")
    /\ sel = Len(images) - 1

\* C20: the buttons "up" and "down" shift the selected image one slot
\* toward the front or the back of the collection and leave the other
\* images in their relative order; at the first position "up", and at the
\* last position "down", changes nothing.
UpDnMovesImage ==
    [][\A up \in BOOLEAN :
          image_up_dn(up)
             => LET name == images[sel + 1].name
                IN /\ Len(images') = Len(images)
                   /\ IndexOf(images', name) =
                         UpDnIndex(sel, up, Len(images))
                   /\ OdictDel(images', name) = OdictDel(images, name)]_vars

\* C21: an image stays in the collection, under its key, until it is
\* deleted (delete_image) or the image stack is cleared
\* (delete_image_stack): every other step (a step of a scan run, a stop
\* request, a reorder, a device refresh with its session reset) keeps every
\* stored (key, image) pair.
ImagesStayUntilDeleted ==
    [][\/ \E name \in Keys(images) : delete_image(name)
       \/ delete_image_stack
       \/ Range(images) \subseteq Range(images')]_vars

\* scan_adf line 481: n1 = len(self.images) - n0; scan_flatbed line 511:
\* n1 = len(images) - n0. The number the run prints as "new images",
\* computed after the table entry is removed and before cb_done.
n1(t) ==
    IF threads[t].tp = "adf" THEN Len(images) - threads[t].n0
    ELSE Len(Coll(t)) - threads[t].n0

\* C22: the number of new images a run reports at its end is the number of
\* frames it appended: k for a feeder run that stored k frames, 0 for a
\* flatbed run whose frame request failed; also when images are deleted
\* while the run is in flight and when the run's collection is not the
\* instance's own.
RunReportsAppended ==
    \A t \in ThreadIds :
        threads[t].pc = "notify" =>
            /\ threads[t].tp = "adf" => n1(t) = Len(threads[t].ret)
            /\ (threads[t].tp = "flatbed" /\ threads[t].last # "frame")
                  => n1(t) = 0

\* C23: scan_stop(code) with no run in flight for the code changes no
\* state: the stop flag, the handle table, the handles and the collection
\* stay as they are, also when a handle for the code is registered and idle.
StopWithoutRunChangesNothing ==
    [][\A code \in Codes :
          (/\ ApiScanStop(code)
           /\ \A t \in ThreadIds : ~(Alive(t) /\ threads[t].code = code))
             => UNCHANGED <<scanVars, drvVars, images>>]_vars

\* C24: a driver error raised by the close of a handle is never fatal: the
\* close at the end of a flatbed or feeder run is followed by the removal of
\* the table entry (and then cb_done), the close-before-reopen of
\* init_device is followed by the open and a return code, and close_all
\* empties the table.
CloseErrorNotFatal ==
    [][/\ \A t \in ThreadIds :
             (threads[t].pc = "closing" /\ threads'[t].pc # "closing")
                => threads'[t].pc = "unreg"
       /\ (\E code \in Codes : ApiInitDevice(code)) => init_rc'.rc \in {0, 2}
       /\ ApiCloseAll => data_devices' = [c \in Codes |-> None]]_vars

\* C25: a resolution that cannot be applied never escapes set_option as an
\* exception: the call returns, with a non-zero code and the option as it
\* was when the value was not set, so the run goes on to request frames;
\* a resolution of None returns 0 and leaves the option as it was.
ResolutionFailureReturns ==
    op = "set_option" =>
        /\ call_ret.raised = "none"
        /\ call_ret.rc \in 0..4
        /\ call_ret.rc # 0 => call_ret.option = call_args.option
        /\ call_args.val = PyNone =>
              call_ret.rc = 0 /\ call_ret.option = call_args.option

\* C26: complete_code_hint returns a discovered code equal to the hint
\* (case ignored) when there is one, also when an earlier descriptor only
\* contains the hint; otherwise the first descriptor, in discovery order,
\* whose code contains the hint (case ignored); otherwise no match. What it
\* returns is one of the discovered codes in its original letter case.
CodeHintCompleted ==
    op = "complete_code_hint" =>
        LET info == call_args.info
            h == lower(IF call_args.given THEN call_args.hint
                       ELSE defaults_code)
            Equal(i) == lower(info[i]) = h
            Has(i) == Contains(lower(info[i]), h)
            pos == 1..Len(info)
        IN /\ (\E i \in pos : Equal(i))
                => call_ret.found /\ lower(call_ret.code) = h
           /\ ((\E i \in pos : Has(i)) /\ ~\E i \in pos : Equal(i))
                => \E i \in pos : /\ Has(i)
                                  /\ \A j \in 1..(i - 1) : ~Has(j)
                                  /\ call_ret.found
                                  /\ call_ret.code = info[i]
           /\ (~\E i \in pos : Has(i)) => ~call_ret.found
           /\ call_ret.found => \E i \in pos : call_ret.code = info[i]

\* The hint equals a later code in another letter case while an earlier
\* code only contains it; the later code is returned as discovered.
ExactMatchBehindSubstring ==
    /\ op = "complete_code_hint"
    /\ call_args.given
    /\ call_args.info = <<<<"a", "b">>, <<"A">>>>
    /\ call_args.hint = <<"a">>
    /\ call_ret = [found |-> TRUE, code |-> <<"A">>]

\* C27: del_image_by_name(key) with the key present removes that entry and
\* no other and returns 1; the remaining entries keep their keys, their
\* images and their relative order. With the key absent (never issued or
\* deleted before) it returns 0 and the collection is as before.
DelRemovesNamedEntry ==
    [][op' = "del_image_by_name" =>
          IF call_args' \in Keys(images)
          THEN /\ call_ret' = 1
               /\ call_args' \notin Keys(images')
               /\ Len(images') = Len(images) - 1
               /\ \A e \in Range(images) :
                     e.name # call_args' => e \in Range(images')
               /\ \A i, j \in 1..Len(images') :
                     i < j => \E a, b \in 1..Len(images) :
                                 /\ a < b
                                 /\ images[a] = images'[i]
                                 /\ images[b] = images'[j]
          ELSE /\ call_ret' = 0
               /\ images' = images]_vars

\* The middle one of three images has been deleted by its key.
MiddleImageDeleted ==
    /\ op = "del_image_by_name"
    /\ call_args = "001_adf"
    /\ call_ret = 1
    /\ Len(images) = 2
    /\ images[1].name = "000_adf"
    /\ images[2].name = "002_adf"

\* C28: the key counter goes up by one with every append and is changed
\* by nothing else but Scan.reset(), which sets it to 0; a reset leaves no
\* image issued before it in the collection, so an append after a reset
\* adds an entry under a key no stored image has and overwrites nothing.
KeyAfterResetIsFresh ==
    [][/\ data_next_index_image' # data_next_index_image =>
             \/ /\ data_next_index_image' = data_next_index_image + 1
                /\ Len(images') = Len(images) + 1
                /\ Range(images) \subseteq Range(images')
             \/ /\ ApiReset
                /\ data_next_index_image' = 0
       /\ ApiReset => images' = <<>>]_vars

\* C29: once a flatbed or feeder run has called cb_done, the steps of its
\* thread leave the image collection (the instance's and the run's own),
\* the handle table, the handles, the stop flag and the key counter as
\* they are.
NothingAfterNotify ==
    [][\A t \in ThreadIds :
          (threads[t].pc = "done" /\ threads'[t].pc # "done")
             => /\ UNCHANGED <<scanVars, drvVars, images, issued>>
                /\ threads'[t].pc = "finished"]_vars

\* A feeder or flatbed run of the GUI has stored a frame, posted
\* <<scan_complete>> and returned; the event is still in the queue.
RunReturnedAfterNotify ==
    /\ \E t \in ThreadIds : threads[t].pc = "finished"
    /\ events.scan_complete = 1
    /\ images # <<>>

\* C30: with landscape set, the page save_images writes is the normalized
\* page turned by 90 degrees on an expanded canvas: its width and height are
\* the height and width of the normalized page, which in pad or stretch
\* mode makes it round(11.69 * dpi_y) by round(8.27 * dpi_x) pixels.
LandscapeSwapsPage ==
    (op = "save_page" /\ call_args.landscape) =>
        LET dpi == dpi2tuple(call_args.dpi)
        IN /\ ~call_ret.raised
           /\ call_ret.size = <<call_ret.normal[2], call_ret.normal[1]>>
           /\ call_args.enforce_A4 # "none" =>
                 call_ret.size = <<PyRound(A4HeightHundredths * dpi[2], 100),
                                   PyRound(A4WidthHundredths * dpi[1], 100)>>

\* C31: every dpi value used is strictly positive: dpi2tuple returns a
\* pair with both components at least min_dpi for a number, a pair, zero,
\* a negative value and None, and convert_to_A4 divides by positive dpi
\* values only, also when it takes the dpi entry of the image.
DpiStrictlyPositive ==
    op = "convert_dpi" =>
        /\ call_ret.tuple[1] >= MinDpiHundredths
        /\ call_ret.tuple[2] >= MinDpiHundredths
        /\ ~call_ret.raised
        /\ call_ret.used[1] > 0
        /\ call_ret.used[2] > 0


\* C32: every completed presentation operation (the handler of a scan
\* completion or of a feeder frame, a single delete, clearing the image
\* stack, a device refresh that drops images) leaves the page count the GUI
\* shows equal to the number of images in the collection.
PageCountShown ==
    [][(\/ events'.scan_complete < events.scan_complete
        \/ events'.scan_complete_single_multi < events.scan_complete_single_multi
        \/ Len(images') < Len(images))
          => label_pages_number' = Len(images')]_vars

\* C33: a flatbed run has assigned 'Flatbed' to the source option of its
\* device when it requests the frame.
FlatbedSourceSet ==
    \A t \in ThreadIds :
        (threads[t].tp = "flatbed" /\ threads[t].req > 0) =>
            threads[t].source = "Flatbed"

\* C34: in pad mode the scaled content is pasted with its top-left corner
\* at pixel (0, 0) of the canvas, whatever the pixels of the image are.
PastedTopLeft ==
    (op = "convert_to_A4_pad" /\ ~a4_out.raised) =>
        /\ call_ret.raised = "none"
        /\ call_ret.at = <<0, 0>>

\* C37: in pad mode the scaled content is at least 1 pixel wide and high
\* and not larger than the page canvas, round(8.27 * dpi_x) by
\* round(11.69 * dpi_y), and computing the canvas size divides by no zero.
ContentFitsPage ==
    op = "convert_to_A4_pad" =>
        /\ ~a4_out.raised
        /\ a4_out.content[1] >= 1
        /\ a4_out.content[2] >= 1
        /\ \E p \in Rounds(A4WidthHundredths * a4_out.info[1], 100) :
              a4_out.content[1] <= p
        /\ \E p \in Rounds(A4HeightHundredths * a4_out.info[2], 100) :
              a4_out.content[2] <= p

\* C35: every frame a flatbed or feeder run appends goes into the
\* collection the presentation layer holds (scan.images), also when images
\* were reordered or deleted from the presentation thread while the run was
\* in flight.
FramesReachCollection ==
    [][Len(issued') > Len(issued) =>
          issued'[Len(issued')] \in Keys(images')]_vars

\* C36: a flatbed run whose frame comes back while a stop is requested
\* discards the frame: the step leaves the collection and the key counter
\* as they are, the run reports 0 new images, and when the run ends its
\* handle is closed and cb_done has been called exactly once.
StoppedFlatbedDiscards ==
    /\ [](\A t \in ThreadIds :
            (threads[t].pc = "notify" /\ threads[t].ignored = 1) => n1(t) = 0)
    /\ [][\A t \in ThreadIds :
            /\ (/\ threads[t].tp = "flatbed"
                /\ threads[t].pc = "scanning"
                /\ data_request_stop
                /\ Len(threads'[t].ret) > Len(threads[t].ret))
                  => /\ threads'[t].ignored = 1
                     /\ UNCHANGED <<images, data_next_index_image>>
                     /\ CollNext(t) = Coll(t)
            /\ (RunEnds(t) /\ threads[t].ignored = 1)
                  => /\ threads[t].cb = 1
                     /\ threads[t].device \notin drv_open'[threads[t].code]]_vars

\* C39: no completion event (init-complete, scan-complete, the per-frame
\* event) is lost: an event leaves the queue only when the handlers are
\* bound, that is, events are generated only after the binding.
EventsNeverLost ==
    [][(\E name \in DOMAIN events : events'[name] < events[name])
          => handlers_bound]_vars

\* A stop was requested for the feeder run of thread t and the flag is set
\* while the run is configuring the device or in its loop.
StopPending(t) ==
    /\ threads[t].tp = "adf"
    /\ threads[t].stop_req
    /\ data_request_stop

====
